---- MODULE Spec2Model ----
(***************************************************************************)
(* WordWise (zsmaguc/better-games): the statistics engine, the history     *)
(* log, the sync merge engine (intelligentMerge), the sync client          *)
(* (handleSyncNow and friends) and the Cloudflare worker's /sync endpoints.*)
(*                                                                         *)
(* JavaScript objects are records whose DOMAIN holds the keys that are     *)
(* present: a missing key reads as undefined.  Arrays are sequences.       *)
(***************************************************************************)
EXTENDS Integers, Sequences, FiniteSets, TLC

(***************************************************************************)
(* Program constants                                                       *)
(***************************************************************************)
MAX_ATTEMPTS == 6

MAX_HISTORY_SIZE == 20

(***************************************************************************)
(* Bounds of the model                                                     *)
(***************************************************************************)
\* greatest value Date.now() takes on any clock
MaxTime == 2

\* words of the answer list (ANSWER_WORDS)
NumWords == 2

\* sync codes the worker can mint
MaxCodes == 1

\* new rounds started after the one each device opens with
MaxRounds == 1

\* finished games recorded (saveGameToHistory)
MaxGames == 2

\* guesses that are not the target word and do not end the game
MaxWrong == 1

\* sync cycles (handleSyncNow) started
MaxSyncs == 4

\* uses of the Connect button (handleEnterSyncCode)
MaxEnters == 1

\* calls of one device suspended on the network at the same time
MaxInFlight == 1

\* fetch() calls that reject
MaxFailures == 1

\* uses of Clear Used Words
MaxClears == 1

\* status timers that fire (the others are still pending when the exploration ends)
MaxTimeouts == 1

\* acts of the users and of the environment in one behaviour: games recorded, rounds
\* started, wrong guesses, Clear Used Words, uses of Sync Now, failures, timers
MaxActs == 3

\* merge inputs: games played to build a side's statistics
MaxGamesIn == 2

\* merge inputs: entries of a side's history
MaxHistLen == 2

\* merge inputs: distinct game ids that can occur on a side
MaxIds == 2

\* updateStatistics called in sequence: games counted since the last reset
MaxPlayed == 3

\* merge inputs: entries of a side's usedWords
MaxWordsIn == 2

(***************************************************************************)
(* JavaScript helpers                                                      *)
(***************************************************************************)
Has(obj, key) == key \in DOMAIN obj

\* obj.key || 0
NumOr0(obj, key) == IF Has(obj, key) THEN obj[key] ELSE 0

Max(a, b) == IF a >= b THEN a ELSE b

SeqToSet(s) == {s[i] : i \in 1..Len(s)}

\* array.slice(-n)
LastN(s, n) == IF Len(s) <= n THEN s ELSE SubSeq(s, Len(s) - n + 1, Len(s))

\* Array.from(new Set(array)): first occurrences, in insertion order
RECURSIVE Dedup(_)
Dedup(s) ==
  IF s = <<>> THEN <<>>
  ELSE LET front == Dedup(SubSeq(s, 1, Len(s) - 1))
           x == s[Len(s)]
       IN IF x \in SeqToSet(front) THEN front ELSE Append(front, x)

\* array.sort((a, b) => (a.t || 0) - (b.t || 0)): a stable sort.  The element at
\* index i goes after those with a smaller key and those with an equal key that
\* precede it.
SortRank(s, i) ==
  Cardinality({j \in 1..Len(s) :
                 \/ NumOr0(s[j], "t") < NumOr0(s[i], "t")
                 \/ (NumOr0(s[j], "t") = NumOr0(s[i], "t") /\ j < i)}) + 1

\* a variant: the sort puts the most recent entries first
SortByT_descending(s) ==
  [k \in 1..Len(s) |-> s[CHOOSE i \in 1..Len(s) : SortRank(s, i) = Len(s) + 1 - k]]

SortByT(s) == [k \in 1..Len(s) |-> s[CHOOSE i \in 1..Len(s) : SortRank(s, i) = k]]

(***************************************************************************)
(* Statistics                                                              *)
(***************************************************************************)
getInitialStats ==
  [played |-> 0, wins |-> 0, currentStreak |-> 0, maxStreak |-> 0,
   guessDistribution |-> <<0, 0, 0, 0, 0, 0>>, aiWords |-> 0, listWords |-> 0]

\* a variant: a win leaves the best streak as it was
updateStatistics_maxStreakKept(stats, status, guessCount, source) ==
  LET srcKey == IF source = "ai" THEN "aiWords" ELSE "listWords"
      counted == [k \in DOMAIN stats \cup {srcKey} |->
                    IF k = "played" THEN stats.played + 1
                    ELSE IF k = srcKey THEN NumOr0(stats, srcKey) + 1
                    ELSE stats[k]]
  IN IF status = "won"
       THEN [counted EXCEPT !.wins = @ + 1,
                            !.currentStreak = @ + 1,
                            !.guessDistribution = [@ EXCEPT ![guessCount] = @ + 1]]
       ELSE [counted EXCEPT !.currentStreak = 0]

\* a variant: a loss clears the best streak along with the running one
updateStatistics_lossClearsMax(stats, status, guessCount, source) ==
  LET srcKey == IF source = "ai" THEN "aiWords" ELSE "listWords"
      counted == [k \in DOMAIN stats \cup {srcKey} |->
                    IF k = "played" THEN stats.played + 1
                    ELSE IF k = srcKey THEN NumOr0(stats, srcKey) + 1
                    ELSE stats[k]]
  IN IF status = "won"
       THEN [counted EXCEPT !.wins = @ + 1,
                            !.currentStreak = @ + 1,
                            !.maxStreak = Max(@, counted.currentStreak + 1),
                            !.guessDistribution = [@ EXCEPT ![guessCount] = @ + 1]]
       ELSE [counted EXCEPT !.currentStreak = 0, !.maxStreak = 0]

\* a variant: a game counts for both word counters
updateStatistics_bothCounters(stats, status, guessCount, source) ==
  LET counted == [k \in DOMAIN stats \cup {"aiWords", "listWords"} |->
                    IF k = "played" THEN stats.played + 1
                    ELSE IF k \in {"aiWords", "listWords"} THEN NumOr0(stats, k) + 1
                    ELSE stats[k]]
  IN IF status = "won"
       THEN [counted EXCEPT !.wins = @ + 1,
                            !.currentStreak = @ + 1,
                            !.maxStreak = Max(@, counted.currentStreak + 1),
                            !.guessDistribution = [@ EXCEPT ![guessCount] = @ + 1]]
       ELSE [counted EXCEPT !.currentStreak = 0]

\* The value updateStatistics builds from `stats` (guessDistribution indices 1..6
\* stand for the array's 0..5).
updateStatistics(stats, status, guessCount, source) ==
  LET srcKey == IF source = "ai" THEN "aiWords" ELSE "listWords"
      counted == [k \in DOMAIN stats \cup {srcKey} |->
                    IF k = "played" THEN stats.played + 1
                    ELSE IF k = srcKey THEN NumOr0(stats, srcKey) + 1
                    ELSE stats[k]]
  IN IF status = "won"
       THEN [counted EXCEPT !.wins = @ + 1,
                            !.currentStreak = @ + 1,
                            !.maxStreak = Max(@, counted.currentStreak + 1),
                            !.guessDistribution = [@ EXCEPT ![guessCount] = @ + 1]]
       ELSE [counted EXCEPT !.currentStreak = 0]

\* The object passed to updateStatistics, after the call.  newStats = {...stats} is a
\* shallow copy: its guessDistribution is the array of the object passed in, and
\* newStats.guessDistribution[guessCount - 1] += 1 writes into that array.
currentStatsAfter(stats, status, guessCount) ==
  IF status = "won"
    THEN [stats EXCEPT !.guessDistribution = [@ EXCEPT ![guessCount] = @ + 1]]
    ELSE stats

(***************************************************************************)
(* intelligentMerge                                                        *)
(***************************************************************************)
\* a variant: the backfilled entry is stamped with the epoch instead of the merge time
BackfillGame_epoch(game, uuid, now) ==
  [k \in DOMAIN game \cup {"id", "t"} |->
     IF k = "id" THEN uuid ELSE IF k = "t" THEN 0 ELSE game[k]]

\* {...game, id: generateUUID(), t: Date.now()}
BackfillGame(game, uuid, now) ==
  [k \in DOMAIN game \cup {"id", "t"} |->
     IF k = "id" THEN uuid ELSE IF k = "t" THEN now ELSE game[k]]

\* the entries of hist at the indices in S, in their order
Pick(hist, S) ==
  [k \in 1..Cardinality(S) |-> hist[CHOOSE i \in S : Cardinality({j \in S : j <= i}) = k]]

\* the indices of the entries that have an id (if (game.id))
WithId(hist) == {i \in 1..Len(hist) : Has(hist[i], "id")}

\* the indices at which an id occurs for the first time
FirstOfId(hist) ==
  {i \in WithId(hist) : \A j \in WithId(hist) : j < i => hist[j].id # hist[i].id}

\* the entries of hist with the given id, in their order
CopiesOf(hist, id) == Pick(hist, {i \in WithId(hist) : hist[i].id = id})

\* gamesWithoutId.push({...game, id: generateUUID(), t: Date.now()}) for the entries
\* without id, in their order
Backfilled(hist, uuid, now) ==
  LET old == Pick(hist, (1..Len(hist)) \ WithId(hist))
  IN [k \in 1..Len(old) |-> BackfillGame(old[k], uuid + k - 1, now)]

\* localHistory.forEach(...): acc = [historyMap, gamesWithoutId, uuid].
\* historyMap.set(game.id, game) keeps a key at the place of its first insertion and
\* leaves it the value set last.
AddLocalGames(hist, acc0, now) ==
  LET LastOf(id) == CopiesOf(hist, id)[Len(CopiesOf(hist, id))]
      known == {acc0.historyMap[i].id : i \in 1..Len(acc0.historyMap)}
      added == Pick(hist, {i \in FirstOfId(hist) : hist[i].id \notin known})
      fresh == Backfilled(hist, acc0.uuid, now)
  IN [historyMap |->
        [i \in 1..Len(acc0.historyMap) |->
           IF CopiesOf(hist, acc0.historyMap[i].id) # <<>>
             THEN LastOf(acc0.historyMap[i].id)
             ELSE acc0.historyMap[i]]
          \o [i \in 1..Len(added) |-> LastOf(added[i].id)],
      gamesWithoutId |-> acc0.gamesWithoutId \o fresh,
      uuid |-> acc0.uuid + Len(fresh)]

\* a variant: the remote copy always replaces the local one
RemoteIsNewer_always(game, existing) == TRUE

\* game.t && existing.t && game.t > existing.t
RemoteIsNewer(game, existing) ==
  /\ NumOr0(game, "t") # 0
  /\ NumOr0(existing, "t") # 0
  /\ game.t > existing.t

\* the value a key of historyMap holds after the remote copies of its id were seen
\* in order: a copy replaces the value when it is newer
RECURSIVE Settle(_, _)
Settle(existing, copies) ==
  IF copies = <<>> THEN existing
  ELSE Settle(IF RemoteIsNewer(Head(copies), existing) THEN Head(copies) ELSE existing,
              Tail(copies))

\* remoteHistory.forEach(...)
AddRemoteGames(hist, acc0, now) ==
  LET known == {acc0.historyMap[i].id : i \in 1..Len(acc0.historyMap)}
      added == Pick(hist, {i \in FirstOfId(hist) : hist[i].id \notin known})
      fresh == Backfilled(hist, acc0.uuid, now)
  IN [historyMap |->
        [i \in 1..Len(acc0.historyMap) |->
           Settle(acc0.historyMap[i], CopiesOf(hist, acc0.historyMap[i].id))]
          \o [i \in 1..Len(added) |-> Settle(added[i], Tail(CopiesOf(hist, added[i].id)))],
      gamesWithoutId |-> acc0.gamesWithoutId \o fresh,
      uuid |-> acc0.uuid + Len(fresh)]

StatsOf(data) == IF Has(data, "stats") THEN data.stats ELSE getInitialStats

HistoryOf(data) == IF Has(data, "gameHistory") THEN data.gameHistory ELSE <<>>

UsedWordsOf(data) == IF Has(data, "usedWords") THEN data.usedWords ELSE <<>>

GuessDistributionOf(stats) ==
  IF Has(stats, "guessDistribution") THEN stats.guessDistribution ELSE <<0, 0, 0, 0, 0, 0>>

\* a variant: the streak merged like the other counters
currentStreakToUse_max(localData, remoteData) ==
  Max(NumOr0(StatsOf(localData), "currentStreak"), NumOr0(StatsOf(remoteData), "currentStreak"))

\* the currentStreak intelligentMerge uses
currentStreakToUse(localData, remoteData) ==
  LET localStats == StatsOf(localData)
      remoteStats == StatsOf(remoteData)
      localHistory == HistoryOf(localData)
      remoteHistory == HistoryOf(remoteData)
  IN IF localHistory # <<>> /\ remoteHistory # <<>>
       THEN LET localTime == NumOr0(localHistory[Len(localHistory)], "t")
                remoteTime == NumOr0(remoteHistory[Len(remoteHistory)], "t")
            IN IF remoteTime > localTime
                 THEN NumOr0(remoteStats, "currentStreak")
                 ELSE NumOr0(localStats, "currentStreak")
     ELSE IF remoteHistory # <<>> /\ localHistory = <<>>
       THEN NumOr0(remoteStats, "currentStreak")
     ELSE NumOr0(localStats, "currentStreak")

\* a variant: maxStreak and the guess distribution are taken from the local side
MergedStats_localBest(localData, remoteData) ==
  LET localStats == StatsOf(localData)
      remoteStats == StatsOf(remoteData)
  IN [played |-> Max(NumOr0(localStats, "played"), NumOr0(remoteStats, "played")),
      wins |-> Max(NumOr0(localStats, "wins"), NumOr0(remoteStats, "wins")),
      currentStreak |-> currentStreakToUse(localData, remoteData),
      maxStreak |-> NumOr0(localStats, "maxStreak"),
      guessDistribution |-> GuessDistributionOf(localStats),
      aiWords |-> Max(NumOr0(localStats, "aiWords"), NumOr0(remoteStats, "aiWords")),
      listWords |-> Max(NumOr0(localStats, "listWords"), NumOr0(remoteStats, "listWords"))]

MergedStats(localData, remoteData) ==
  LET localStats == StatsOf(localData)
      remoteStats == StatsOf(remoteData)
      lg == GuessDistributionOf(localStats)
      rg == GuessDistributionOf(remoteStats)
  IN [played |-> Max(NumOr0(localStats, "played"), NumOr0(remoteStats, "played")),
      wins |-> Max(NumOr0(localStats, "wins"), NumOr0(remoteStats, "wins")),
      currentStreak |-> currentStreakToUse(localData, remoteData),
      maxStreak |-> Max(NumOr0(localStats, "maxStreak"), NumOr0(remoteStats, "maxStreak")),
      guessDistribution |->
        [idx \in DOMAIN lg |-> Max(lg[idx], IF idx \in DOMAIN rg THEN rg[idx] ELSE 0)],
      aiWords |-> Max(NumOr0(localStats, "aiWords"), NumOr0(remoteStats, "aiWords")),
      listWords |-> Max(NumOr0(localStats, "listWords"), NumOr0(remoteStats, "listWords"))]

\* a variant: the two histories joined as they are, no merge by id
AllGames_joined(localData, remoteData, uuid, now) ==
  HistoryOf(localData) \o HistoryOf(remoteData)

\* allGames: the games with ids in historyMap order, then the backfilled ones
AllGames(localData, remoteData, uuid, now) ==
  LET afterLocal == AddLocalGames(HistoryOf(localData),
                                  [historyMap |-> <<>>, gamesWithoutId |-> <<>>, uuid |-> uuid], now)
      afterRemote == AddRemoteGames(HistoryOf(remoteData), afterLocal, now)
  IN afterRemote.historyMap \o afterRemote.gamesWithoutId

MergedHistory(localData, remoteData, uuid, now) ==
  LastN(SortByT(AllGames(localData, remoteData, uuid, now)), MAX_HISTORY_SIZE)

\* a variant: the two arrays joined as they are
MergedUsedWords_joined(localData, remoteData) ==
  UsedWordsOf(localData) \o UsedWordsOf(remoteData)

MergedUsedWords(localData, remoteData) ==
  Dedup(Dedup(UsedWordsOf(localData)) \o Dedup(UsedWordsOf(remoteData)))

\* localData.settings?.key !== undefined ? localData.settings.key
\*                                       : (remoteData.settings?.key || dflt)
MergedSetting(localData, remoteData, key, dflt) ==
  IF Has(localData, "settings") /\ Has(localData.settings, key)
    THEN localData.settings[key]
  ELSE IF Has(remoteData, "settings") /\ Has(remoteData.settings, key)
          /\ remoteData.settings[key]
    THEN remoteData.settings[key]
  ELSE dflt

MergedSettings(localData, remoteData) ==
  [aiEnabled |-> MergedSetting(localData, remoteData, "aiEnabled", TRUE),
   showReasoning |-> MergedSetting(localData, remoteData, "showReasoning", FALSE),
   tier2Focus |-> MergedSetting(localData, remoteData, "tier2Focus", FALSE),
   extendedInfo |-> MergedSetting(localData, remoteData, "extendedInfo", FALSE)]

\* uuid: the first id generateUUID() hands out; now: Date.now() during the merge
intelligentMerge(localData, remoteData, uuid, now) ==
  [stats |-> MergedStats(localData, remoteData),
   gameHistory |-> MergedHistory(localData, remoteData, uuid, now),
   usedWords |-> MergedUsedWords(localData, remoteData),
   settings |-> MergedSettings(localData, remoteData)]

\* how many ids the merge drew from generateUUID()
LegacyCount(data) == Cardinality({i \in 1..Len(HistoryOf(data)) : ~Has(HistoryOf(data)[i], "id")})

(***************************************************************************)
(* The system: two installations of the app and the worker's KV store      *)
(***************************************************************************)
Devices == {"A", "B"}

WordList == <<"CRANE", "SLATE", "BRICK", "GHOST">>

ANSWER_WORDS == {WordList[i] : i \in 1..NumWords}

\* the worker mints its random codes in this order (codes are interchangeable)
CodeList == <<"ABCD-2345", "WXYZ-6789", "HJKL-3456">>

SyncCodes == {CodeList[i] : i \in 1..MaxCodes}

NoCode == ""

\* loadAPIKey() with nothing stored (null), and a stored key
NoKey == ""

StoredKey == "sk-ant-key"

\* JSON null / no KV entry / no payload
Nothing == [none |-> TRUE]

\* useState(null) of syncError
NoError == ""

\* loadPendingUnderstanding() with nothing stored: null
NoRating == 0

VARIABLES
  stats,              \* [device]: wordwise-stats and the stats state
  gameHistory,        \* [device]: wordwise-history and the gameHistory state
  usedWords,          \* [device]: wordwise-used and the usedWords state
  settings,           \* [device]: the four synced preferences
  apiKey,             \* [device]: wordwise-api-key and the apiKey state, NoKey for null
  overlap,            \* how many calls of one device the behaviour lets be suspended at once
  pendingUnderstanding, \* [device]: wordwise-pending-understanding and its state, NoRating for null
  targetWord,         \* [device]
  wordSource,         \* [device]
  currentRow,         \* [device]: 0..5
  gameStatus,         \* [device]: "playing", "won", "lost"
  showFeedbackModal,  \* [device]
  showVictoryDialog,  \* [device]
  syncCode,           \* [device]: NoCode for null
  syncEnabled,        \* [device]
  syncVersion,        \* [device]
  syncStatus,         \* [device]: "idle" (null), "syncing", "success", "error"
  syncError,          \* [device]: the syncError state, NoError for null
  timers,             \* [device]: pending setTimeout(() => setSyncStatus(null))
  calls,              \* [device]: the async sync calls suspended on the network
  store,              \* [code]: the worker's KV entry, or Nothing
  workerNow,          \* the worker's Date.now()
  clock,              \* [device]: the device's Date.now()
  nextId,             \* the next id generateUUID() returns
  \* bookkeeping of the model: budgets and what happened
  rounds, syncs, manual, enters, failures, clears, wrong, timeouts,
  saves,              \* [device]: times saveGameToHistory ran for the current round
  unsaved,            \* [device]: finished rounds replaced without having been saved
  lastCycle,          \* [device]: how the last finished handleSyncNow ended
  lastGame,           \* [device]: the last game the device recorded
  lastMerge,          \* [device]: the last intelligentMerge the device ran
  lastResp,           \* [device]: the last HTTP response the device received
  accepted,           \* [code]: the versions of the PUTs the worker accepted, in order
  \* the merge engine on its own: intelligentMerge(mLocal, mRemote) run at time mNow
  mLocal, mRemote, mOut, mNow,
  \* updateStatistics on its own: the object passed in (before and after the call),
  \* the other arguments, and the object returned
  sIn, sArgs, sInAfter, sOut,
  bTarget,            \* the target word of the board that is drawn
  bGuess,             \* the guess in the row that is drawn
  bRow,               \* the statuses getLetterStatus gave to the row's positions
  \* one installation's round, key by key (device A)
  guesses,            \* the guesses state: six rows, <<>> for ''
  currentGuess,       \* the letters typed in the current row
  errorMessage,       \* the errorMessage state
  isLoadingWord,      \* the isLoadingWord state
  gameState,          \* wordwise-game-state in localStorage, or Nothing
  aiCall,             \* startNewGame suspended on callClaudeAPI: the request, or Nothing
  \* bookkeeping of the round
  selectedWith,       \* the source the current target word was selected with
  lastPick,           \* the last answer of the word picker that startNewGame resumed with
  reloads,            \* page loads so far
  submits             \* presses of ENTER so far

sysVars == <<stats, gameHistory, usedWords, settings, apiKey, overlap, pendingUnderstanding, targetWord, wordSource, currentRow,
             gameStatus, showFeedbackModal, showVictoryDialog, syncCode, syncEnabled,
             syncVersion, syncStatus, syncError, timers, calls, store, workerNow, clock, nextId,
             rounds, syncs, manual, enters, failures, clears, wrong, timeouts, saves, unsaved,
             lastCycle, lastGame, lastMerge, lastResp, accepted>>

roundVars == <<guesses, currentGuess, errorMessage, isLoadingWord, gameState, aiCall,
               selectedWith, lastPick, reloads, submits>>

mergeVars == <<mLocal, mRemote, mOut, mNow, sIn, sArgs, sInAfter, sOut, bTarget, bGuess, bRow, roundVars>>

vars == <<sysVars, mergeVars>>

\* loadAIEnabled() ... loadExtendedInfo() on a fresh installation
DefaultSettings ==
  [aiEnabled |-> TRUE, showReasoning |-> FALSE, tier2Focus |-> FALSE, extendedInfo |-> FALSE]

\* initializeGameState on an installation with no finished game: a new game
\* (getRandomWord: any answer word), or the saved state of a first game that was left
\* before its last guess.  The devices and the words are interchangeable: the device
\* that may open with a saved game is called A, and its word is the first of the list.
InitSystem ==
  /\ stats = [d \in Devices |-> getInitialStats]
  /\ gameHistory = [d \in Devices |-> <<>>]
  /\ usedWords = [d \in Devices |-> <<>>]
  /\ settings = [d \in Devices |-> DefaultSettings]
  /\ apiKey = [d \in Devices |-> IF d = "A" THEN StoredKey ELSE NoKey]
  /\ pendingUnderstanding = [d \in Devices |-> NoRating]
  /\ overlap = MaxInFlight
  /\ targetWord \in {f \in [Devices -> ANSWER_WORDS] : f["A"] = WordList[1]}
  /\ wordSource = [d \in Devices |-> "list"]
  /\ currentRow \in {f \in [Devices -> {0, MAX_ATTEMPTS - 1}] : f["B"] = 0}
  /\ gameStatus = [d \in Devices |-> "playing"]
  /\ showFeedbackModal = [d \in Devices |-> FALSE]
  /\ showVictoryDialog = [d \in Devices |-> FALSE]
  /\ syncCode = [d \in Devices |-> NoCode]
  /\ syncEnabled = [d \in Devices |-> FALSE]
  /\ syncVersion = [d \in Devices |-> 0]
  /\ syncStatus = [d \in Devices |-> "idle"]
  /\ syncError = [d \in Devices |-> NoError]
  /\ timers = [d \in Devices |-> 0]
  /\ calls = [d \in Devices |-> <<>>]
  /\ store = [c \in SyncCodes |-> Nothing]
  /\ workerNow = 1
  /\ clock = [d \in Devices |-> 0]
  /\ nextId = 1
  /\ rounds = 0
  /\ syncs = 0
  /\ manual = 0
  /\ enters = 0
  /\ failures = 0
  /\ clears = 0
  /\ wrong = 0
  /\ timeouts = 0
  /\ saves = [d \in Devices |-> 0]
  /\ unsaved = [d \in Devices |-> 0]
  /\ lastCycle = [d \in Devices |-> Nothing]
  /\ lastGame = [d \in Devices |-> Nothing]
  /\ lastMerge = [d \in Devices |-> Nothing]
  /\ lastResp = [d \in Devices |-> Nothing]
  /\ accepted = [c \in SyncCodes |-> <<>>]

InitMergeIdle ==
  /\ mLocal = Nothing
  /\ mRemote = Nothing
  /\ mOut = Nothing
  /\ mNow = 0

InitStatsIdle ==
  /\ sIn = Nothing
  /\ sArgs = Nothing
  /\ sInAfter = Nothing
  /\ sOut = Nothing

InitBoardIdle ==
  /\ bTarget = Nothing
  /\ bGuess = Nothing
  /\ bRow = Nothing

InitRoundIdle ==
  /\ guesses = Nothing
  /\ currentGuess = Nothing
  /\ errorMessage = Nothing
  /\ isLoadingWord = FALSE
  /\ gameState = Nothing
  /\ aiCall = Nothing
  /\ selectedWith = Nothing
  /\ lastPick = Nothing
  /\ reloads = 0
  /\ submits = 0

Init == InitSystem /\ InitMergeIdle /\ InitStatsIdle /\ InitBoardIdle /\ InitRoundIdle

(***************************************************************************)
(* The game round and the local record of a finished game                  *)
(***************************************************************************)
ALLOWED_WORDS == {"AAHED"}

VALID_WORDS == ANSWER_WORDS \cup ALLOWED_WORDS

\* saveGameHistory: only the last 20 entries are written
saveGameHistory(history) == LastN(history, MAX_HISTORY_SIZE)

\* addGameToHistory(word, result, null, source): the log it leaves in storage
addGameToHistory(history, word, result, source, uuid, now) ==
  saveGameHistory(Append(history, [id |-> uuid, w |-> word, r |-> result, src |-> source, t |-> now]))

\* addUsedWord: Set.add, then Array.from
addUsedWord(used, word) == Dedup(Append(used, word))

\* a variant: the snapshot carries the stored API key among the settings
prepareDataForSync_withKey(d) ==
  [stats |-> stats[d], gameHistory |-> gameHistory[d], usedWords |-> usedWords[d],
   settings |-> [k \in DOMAIN settings[d] \cup {"apiKey"} |->
                   IF k = "apiKey" THEN apiKey[d] ELSE settings[d][k]]]

\* prepareDataForSync: read back from localStorage
prepareDataForSync(d) ==
  [stats |-> stats[d], gameHistory |-> gameHistory[d], usedWords |-> usedWords[d],
   settings |-> settings[d]]

HistoryIds(history) == {history[i].id : i \in {j \in 1..Len(history) : Has(history[j], "id")}}

\* bookkeeping: the handleSyncNow cycles device e has in flight
CyclesInFlight(e) ==
  {calls[e][i].no : i \in {j \in 1..Len(calls[e]) : calls[e][j].kind = "syncNow"}}

\* handleSyncNow up to its first await: fetchSyncData(syncCode) is on the wire.
\* Bookkeeping: sent = the versions of the PUTs sent, conflicts = the currentVersion
\* of the 409s received, remerges = the re-merges done, heldWords/heldIds = what the
\* device held when the cycle started, trigger = the game that started it (0: the
\* Sync Now button), no = the cycle's number, with = the cycles of the other devices
\* that were in flight at some time during this one.
SyncNowCall(d, trigger, heldWords, heldIds) ==
  [kind |-> "syncNow", pc |-> "GET_sent", code |-> syncCode[d], body |-> Nothing,
   read |-> Nothing, trigger |-> trigger,
   sent |-> <<>>, conflicts |-> <<>>, remerges |-> 0,
   heldWords |-> heldWords, heldIds |-> heldIds,
   no |-> syncs + 1, with |-> UNION {CyclesInFlight(e) : e \in Devices \ {d}}]

\* bookkeeping: the calls of all devices once device d's are newCalls; a cycle that
\* starts is noted in the cycles of the other devices it overlaps
StartCalls(d, newCalls) ==
  LET started == Len(newCalls) > Len(calls[d]) /\ newCalls[Len(newCalls)].kind = "syncNow"
  IN [e \in Devices |->
        IF e = d THEN newCalls
        ELSE IF started
          THEN [i \in 1..Len(calls[e]) |->
                  IF calls[e][i].kind = "syncNow"
                    THEN [calls[e][i] EXCEPT !.with = @ \cup {newCalls[Len(newCalls)].no}]
                    ELSE calls[e][i]]
        ELSE calls[e]]

\* the device's fields a handler may write before its first await
Untouched(d) ==
  [stats |-> stats[d], gameHistory |-> gameHistory[d], usedWords |-> usedWords[d],
   calls |-> calls[d], syncStatus |-> syncStatus[d], syncs |-> syncs,
   saves |-> saves[d], nextId |-> nextId, clock |-> clock[d], lastGame |-> lastGame[d]]

\* a variant: the sync starts before the used word is stored
saveGameToHistory_syncFirst(d, now) ==
  LET result == IF gameStatus[d] = "won" THEN currentRow[d] + 1 ELSE -1
      newStats == updateStatistics(stats[d], gameStatus[d], currentRow[d] + 1, wordSource[d])
      newHistory == addGameToHistory(gameHistory[d], targetWord[d], result, wordSource[d],
                                     nextId, now)
      sync == syncEnabled[d] /\ syncCode[d] # NoCode
  IN [stats |-> newStats, gameHistory |-> newHistory,
      usedWords |-> IF sync THEN usedWords[d] ELSE addUsedWord(usedWords[d], targetWord[d]),
      calls |-> IF sync
                  THEN Append(calls[d], SyncNowCall(d, nextId, SeqToSet(usedWords[d]),
                                                    HistoryIds(newHistory)))
                  ELSE calls[d],
      syncStatus |-> IF sync THEN "syncing" ELSE syncStatus[d],
      syncs |-> IF sync THEN syncs + 1 ELSE syncs,
      saves |-> saves[d] + 1, nextId |-> nextId + 1, clock |-> now,
      lastGame |-> [id |-> nextId, t |-> now, r |-> result, w |-> targetWord[d]]]

\* saveGameToHistory: statistics, history and used words go to storage, then the
\* sync (if enabled) starts
saveGameToHistory(d, now) ==
  LET result == IF gameStatus[d] = "won" THEN currentRow[d] + 1 ELSE -1
      newStats == updateStatistics(stats[d], gameStatus[d], currentRow[d] + 1, wordSource[d])
      newHistory == addGameToHistory(gameHistory[d], targetWord[d], result, wordSource[d],
                                     nextId, now)
      newUsed == addUsedWord(usedWords[d], targetWord[d])
      sync == syncEnabled[d] /\ syncCode[d] # NoCode
  IN [stats |-> newStats, gameHistory |-> newHistory, usedWords |-> newUsed,
      calls |-> IF sync
                  THEN Append(calls[d], SyncNowCall(d, nextId, SeqToSet(newUsed),
                                                    HistoryIds(newHistory)))
                  ELSE calls[d],
      syncStatus |-> IF sync THEN "syncing" ELSE syncStatus[d],
      syncs |-> IF sync THEN syncs + 1 ELSE syncs,
      saves |-> saves[d] + 1, nextId |-> nextId + 1, clock |-> now,
      lastGame |-> [id |-> nextId, t |-> now, r |-> result, w |-> targetWord[d]]]

\* Date.now() when a handler runs: later than at the device's last recorded game
\* (the devices' clocks are not synchronised with each other)
Later(d) == (clock[d] + 1)..MaxTime

\* if (!usedWords.has(targetWord)) saveGameToHistory()
NotYetSaved(d) == targetWord[d] \notin SeqToSet(usedWords[d])

SaveIfNeeded(d, now) == IF NotYetSaved(d) THEN saveGameToHistory(d, now) ELSE Untouched(d)

\* the acts so far, and whether the exploration has room for one more
Acts == (nextId - 1) + rounds + wrong + clears + manual + failures + timeouts

CanAct(n) == Acts + n <= MaxActs

\* the model's budget for the sync a save starts
SaveInBudget(d) ==
  /\ NotYetSaved(d) => (clock[d] < MaxTime /\ nextId <= MaxGames /\ CanAct(1))
  /\ (NotYetSaved(d) /\ syncEnabled[d] /\ syncCode[d] # NoCode)
       => (syncs < MaxSyncs /\ Len(calls[d]) < overlap)

Commit(d, r) ==
  /\ stats' = [stats EXCEPT ![d] = r.stats]
  /\ gameHistory' = [gameHistory EXCEPT ![d] = r.gameHistory]
  /\ usedWords' = [usedWords EXCEPT ![d] = r.usedWords]
  /\ calls' = StartCalls(d, r.calls)
  /\ syncStatus' = [syncStatus EXCEPT ![d] = r.syncStatus]
  /\ syncError' = [syncError EXCEPT ![d] = IF Len(r.calls) > Len(calls[d]) THEN NoError ELSE @]
  /\ lastGame' = [lastGame EXCEPT ![d] = r.lastGame]
  /\ syncs' = r.syncs
  /\ saves' = [saves EXCEPT ![d] = r.saves]
  /\ nextId' = r.nextId
  /\ clock' = [clock EXCEPT ![d] = r.clock]

NoModal(d) == ~showFeedbackModal[d] /\ ~showVictoryDialog[d]

\* handleKeyDown/handleKeyClick ENTER -> handleSubmit with a valid five-letter guess;
\* the gameStatus effect then opens the result dialog
handleSubmit(d) ==
  /\ gameStatus[d] = "playing"
  /\ NoModal(d)
  /\ currentRow[d] < MAX_ATTEMPTS
  /\ \E guess \in VALID_WORDS :
       IF guess = targetWord[d]
         THEN /\ gameStatus' = [gameStatus EXCEPT ![d] = "won"]
              /\ showFeedbackModal' = [showFeedbackModal EXCEPT ![d] = TRUE]
              /\ UNCHANGED <<currentRow, wrong>>
       ELSE IF currentRow[d] = MAX_ATTEMPTS - 1
         THEN /\ gameStatus' = [gameStatus EXCEPT ![d] = "lost"]
              /\ showFeedbackModal' = [showFeedbackModal EXCEPT ![d] = TRUE]
              /\ UNCHANGED <<currentRow, wrong>>
       ELSE /\ wrong < MaxWrong /\ CanAct(1)
            /\ wrong' = wrong + 1
            /\ currentRow' = [currentRow EXCEPT ![d] = @ + 1]
            /\ UNCHANGED <<gameStatus, showFeedbackModal>>
  /\ UNCHANGED <<stats, gameHistory, usedWords, settings, targetWord, wordSource,
                showVictoryDialog, syncCode, syncEnabled, syncVersion, syncStatus, syncError, timers,
                calls, store, workerNow, clock, nextId, rounds, syncs, manual, enters,
                failures, clears, timeouts, saves, unsaved, lastCycle, lastGame, lastMerge,
                lastResp, accepted, apiKey, overlap, pendingUnderstanding,
                mergeVars>>

handleCloseFeedback(d) ==
  /\ showFeedbackModal[d]
  /\ SaveInBudget(d)
  /\ \E now \in Later(d) : Commit(d, SaveIfNeeded(d, now))
  /\ showFeedbackModal' = [showFeedbackModal EXCEPT ![d] = FALSE]
  /\ UNCHANGED <<settings, targetWord, wordSource, currentRow, gameStatus, showVictoryDialog,
                syncCode, syncEnabled, syncVersion, timers, store, workerNow, rounds, manual,
                enters, failures, clears, wrong, timeouts, unsaved, lastCycle, lastMerge,
                lastResp, accepted, apiKey, overlap, pendingUnderstanding,
                mergeVars>>

\* the Learn button under the board (the dictionary lookup itself is not modelled)
handleLearnClick(d) ==
  /\ gameStatus[d] # "playing"
  /\ NoModal(d)
  /\ SaveInBudget(d)
  /\ \E now \in Later(d) : Commit(d, SaveIfNeeded(d, now))
  /\ UNCHANGED <<settings, targetWord, wordSource, currentRow, gameStatus, showFeedbackModal,
                showVictoryDialog, syncCode, syncEnabled, syncVersion, timers, store,
                workerNow, rounds, manual, enters, failures, clears, wrong, timeouts, unsaved,
                lastCycle, lastMerge, lastResp, accepted, apiKey, overlap, pendingUnderstanding,
                mergeVars>>

\* entry.u = rating
RatedWith(game, rating) == [k \in DOMAIN game \cup {"u"} |-> IF k = "u" THEN rating ELSE game[k]]

\* startGameWithWord, the pending rating: the history it stores and sets
\* (history[history.length - 1].u = pendingRating)
startGameWithWord(history, pendingRating) ==
  IF pendingRating # NoRating /\ Len(history) > 0
    THEN [history EXCEPT ![Len(history)] = RatedWith(@, pendingRating)]
    ELSE history

\* the Play Again button: resetGame -> startNewGame -> startGameWithWord(word, 'list').
\* startNewGame filters the answer list with the usedWords of the render the click
\* happened in.
resetGame(d) ==
  /\ gameStatus[d] # "playing"
  /\ NoModal(d)
  /\ SaveInBudget(d)
  /\ rounds < MaxRounds
  /\ \E now \in Later(d) :
       LET r == SaveIfNeeded(d, now)
           availableFromList == ANSWER_WORDS \ SeqToSet(usedWords[d])
       IN IF availableFromList = {}
            THEN /\ Commit(d, r)
                 /\ showVictoryDialog' = [showVictoryDialog EXCEPT ![d] = TRUE]
                 /\ UNCHANGED <<targetWord, wordSource, currentRow, gameStatus, rounds, unsaved,
                                pendingUnderstanding>>
            ELSE \E word \in availableFromList :
                   /\ CanAct(IF NotYetSaved(d) THEN 2 ELSE 1)
                   /\ Commit(d, [r EXCEPT !.saves = 0,
                                          !.gameHistory = startGameWithWord(@, pendingUnderstanding[d])])
                   /\ pendingUnderstanding' = [pendingUnderstanding EXCEPT ![d] = NoRating]
                   /\ targetWord' = [targetWord EXCEPT ![d] = word]
                   /\ wordSource' = [wordSource EXCEPT ![d] = "list"]
                   /\ currentRow' = [currentRow EXCEPT ![d] = 0]
                   /\ gameStatus' = [gameStatus EXCEPT ![d] = "playing"]
                   /\ rounds' = rounds + 1
                   /\ unsaved' = [unsaved EXCEPT ![d] = IF r.saves = 0 THEN @ + 1 ELSE @]
                   /\ UNCHANGED showVictoryDialog
  /\ UNCHANGED <<settings, showFeedbackModal, syncCode, syncEnabled, syncVersion, timers, store,
                workerNow, manual, enters, failures, clears, wrong, timeouts, lastCycle,
                lastMerge, lastResp, accepted, apiKey, overlap,
                mergeVars>>

\* handleClearUsedWords, confirmed by the player (declining, or clearing a set that is
\* already empty, leaves every variable as it is)
handleClearUsedWords(d) ==
  /\ NoModal(d)
  /\ usedWords[d] # <<>>
  /\ clears < MaxClears /\ CanAct(1)
  /\ usedWords' = [usedWords EXCEPT ![d] = <<>>]
  /\ clears' = clears + 1
  /\ UNCHANGED <<stats, gameHistory, settings, targetWord, wordSource, currentRow, gameStatus,
                showFeedbackModal, showVictoryDialog, syncCode, syncEnabled, syncVersion,
                syncStatus, syncError, timers, calls, store, workerNow, clock, nextId, rounds, syncs,
                manual, enters, failures, wrong, timeouts, saves, unsaved, lastCycle, lastGame,
                lastMerge, lastResp, accepted, apiKey, overlap, pendingUnderstanding,
                mergeVars>>

(***************************************************************************)
(* The worker's /sync endpoints (handleSyncRequest).  The PUT handler reads *)
(* the entry (`await env.WORDWISE_SYNC.get`) and writes it (`await          *)
(* env.WORDWISE_SYNC.put`) in two KV operations: other requests can be      *)
(* served between them.  A response reaches the client in the step that     *)
(* produces it: what runs on the other device or in the worker between a    *)
(* response and the handler's resumption commutes with the resumption.      *)
(***************************************************************************)
RemoveAt(seq, i) == SubSeq(seq, 1, i - 1) \o SubSeq(seq, i + 1, Len(seq))

Minted == {c \in SyncCodes : store[c] # Nothing}

\* generateSyncCode() with the `exists` retry: a code not in the store yet
FreshCode == CodeList[Cardinality(Minted) + 1]

\* POST /sync/generate: the entry it stores
MintedRecord(body, now) ==
  [data |-> body.data, version |-> 1, lastSync |-> now, createdAt |-> now]

\* the characters of the texts that are typed in, sent or stored as sync codes
Letters(text) ==
  CASE text = "ABCD-2345" -> <<"A", "B", "C", "D", "-", "2", "3", "4", "5">>
    [] text = "WXYZ-6789" -> <<"W", "X", "Y", "Z", "-", "6", "7", "8", "9">>
    [] text = "HJKL-3456" -> <<"H", "J", "K", "L", "-", "3", "4", "5", "6">>
    [] text = " abcd-2345 " -> <<" ", "a", "b", "c", "d", "-", "2", "3", "4", "5", " ">>
    [] text = "ABCDE2345" -> <<"A", "B", "C", "D", "E", "2", "3", "4", "5">>
    [] text = "ABCD" -> <<"A", "B", "C", "D">>
    [] text = "" -> <<>>
    [] text = "CRANE" -> <<"C", "R", "A", "N", "E">>
    [] text = "SLATE" -> <<"S", "L", "A", "T", "E">>
    [] text = "BRICK" -> <<"B", "R", "I", "C", "K">>
    [] text = "GHOST" -> <<"G", "H", "O", "S", "T">>
    [] text = "AAHED" -> <<"A", "A", "H", "E", "D">>
    [] text = "CRANK" -> <<"C", "R", "A", "N", "K">>
    [] text = " crane " -> <<" ", "c", "r", "a", "n", "e", " ">>
    [] text = "CRANES" -> <<"C", "R", "A", "N", "E", "S">>
    [] text = "BR1CK" -> <<"B", "R", "1", "C", "K">>

Texts ==
  {"ABCD-2345", "WXYZ-6789", "HJKL-3456", " abcd-2345 ", "ABCDE2345", "ABCD", "",
   "CRANE", "SLATE", "BRICK", "GHOST", "AAHED", "CRANK", " crane ", "CRANES", "BR1CK"}

\* the text with these characters
Text(chars) == CHOOSE text \in Texts : Letters(text) = chars

\* String.prototype.trim
Trim(chars) ==
  LET inked == {i \in 1..Len(chars) : chars[i] # " "}
  IN IF inked = {} THEN <<>>
     ELSE SubSeq(chars, CHOOSE i \in inked : \A j \in inked : i <= j,
                        CHOOSE i \in inked : \A j \in inked : i >= j)

\* String.prototype.toUpperCase
ToUpperCase(chars) ==
  [i \in 1..Len(chars) |->
     CASE chars[i] = "a" -> "A"
       [] chars[i] = "b" -> "B"
       [] chars[i] = "c" -> "C"
       [] chars[i] = "d" -> "D"
       [] chars[i] = "e" -> "E"
       [] chars[i] = "n" -> "N"
       [] chars[i] = "r" -> "R"
       [] OTHER -> chars[i]]

\* GET /sync/{code}
GetResponse(code) ==
  IF code = "" \/ Len(Letters(code)) # 9 THEN [status |-> 400]
  ELSE IF code \notin SyncCodes \/ store[code] = Nothing THEN [status |-> 404]
  ELSE [status |-> 200, body |-> store[code]]

\* PUT: body.version <= currentData.version
VersionConflict(body, currentData) == body.version <= currentData.version

\* a variant: the update stamps the entry as newly created
UpdatedRecord_restamped(body, currentData, now) ==
  [data |-> body.data, version |-> body.version, lastSync |-> now, createdAt |-> now]

\* PUT: updatedData
UpdatedRecord(body, currentData, now) ==
  [data |-> body.data, version |-> body.version, lastSync |-> now,
   createdAt |-> currentData.createdAt]

ConflictResponse(currentData) ==
  [status |-> 409, currentVersion |-> currentData.version, currentData |-> currentData]

\* PUT /sync/{code} after the KV get returned currentData
PutResponse(body, currentData) ==
  IF currentData = Nothing THEN [status |-> 404]
  ELSE IF VersionConflict(body, currentData) THEN ConflictResponse(currentData)
  ELSE [status |-> 200, version |-> body.version]

\* PUT /sync/{code}: what the handler does to the store after the KV get
PutEffect(c) ==
  IF PutResponse(c.body, c.read).status = 200
    THEN /\ store' = [store EXCEPT ![c.code] = UpdatedRecord(c.body, c.read, workerNow)]
         /\ workerNow' = workerNow + 1
         /\ accepted' = [accepted EXCEPT ![c.code] = Append(@, c.body.version)]
    ELSE UNCHANGED <<store, workerNow, accepted>>

SetCall(d, i, c) == calls' = [calls EXCEPT ![d][i] = c]

\* PUT: `await env.WORDWISE_SYNC.get(code, { type: 'json' })` is served
WorkerPutRead(d, i) ==
  LET c == calls[d][i]
  IN /\ c.pc = "PUT_sent"
     /\ SetCall(d, i, [c EXCEPT !.pc = "PUT_read", !.read = store[c.code]])
     /\ UNCHANGED <<stats, gameHistory, usedWords, settings, targetWord, wordSource, currentRow,
                   gameStatus, showFeedbackModal, showVictoryDialog, syncCode, syncEnabled,
                   syncVersion, syncStatus, syncError, timers, store, workerNow, clock, nextId, rounds,
                   syncs, manual, enters, failures, clears, wrong, timeouts, saves, unsaved,
                   lastCycle, lastGame, lastMerge, lastResp, accepted, apiKey, overlap, pendingUnderstanding,
                mergeVars>>

(***************************************************************************)
(* The sync client                                                         *)
(***************************************************************************)
\* applyMergedData: state and storage take the merged snapshot
applyMergedData(d, mergedData) ==
  /\ stats' = [stats EXCEPT ![d] = mergedData.stats]
  /\ gameHistory' = [gameHistory EXCEPT ![d] = saveGameHistory(mergedData.gameHistory)]
  /\ usedWords' = [usedWords EXCEPT ![d] = Dedup(mergedData.usedWords)]
  /\ settings' = [settings EXCEPT ![d] =
                    [k \in DOMAIN @ |-> IF Has(mergedData.settings, k)
                                          THEN mergedData.settings[k] ELSE @[k]]]

\* bookkeeping: a merge the device ran, and the last games on record at that time
Merged(localData, remoteData, mergedData) ==
  [local |-> localData, remote |-> remoteData, out |-> mergedData, last |-> lastGame]

\* bookkeeping: a response as the device received it
Received(method, response) ==
  [k \in DOMAIN response \cup {"method"} |-> IF k = "method" THEN method ELSE response[k]]

\* what is kept of a handleSyncNow call when it returns
CycleEnd(c, status) ==
  [status |-> status, sent |-> c.sent, conflicts |-> c.conflicts, remerges |-> c.remerges,
   trigger |-> c.trigger, heldWords |-> c.heldWords, heldIds |-> c.heldIds,
   no |-> c.no, with |-> c.with, code |-> c.code]

\* throw new Error(error.error || fallback), with the worker's error texts
ErrorText(response, fallback) ==
  CASE response.status = 404 -> "Sync code not found"
    [] response.status = 400 -> "Invalid sync code format"
    [] OTHER -> fallback

\* the message of the TypeError a fetch() rejects with
FailedToFetch == "Failed to fetch"

\* handleEnterSyncCode: the message for a code of the wrong length
InvalidFormat == "Invalid sync code format. Use XXXX-YYYY format."

\* a variant: the catch only logs the error
Caught_logged(d, i, message) ==
  /\ UNCHANGED <<syncStatus, syncError>>
  /\ calls' = [calls EXCEPT ![d] = RemoveAt(@, i)]
  /\ lastCycle' = [lastCycle EXCEPT ![d] =
                     IF calls[d][i].kind = "syncNow" THEN CycleEnd(calls[d][i], "error") ELSE @]

\* catch (error) { setSyncStatus('error'); setSyncError(error.message) }; the catch of
\* syncOnLoad only logs the error
Caught(d, i, message) ==
  /\ syncStatus' = [syncStatus EXCEPT ![d] = IF calls[d][i].kind = "load" THEN @ ELSE "error"]
  /\ syncError' = [syncError EXCEPT ![d] = IF calls[d][i].kind = "load" THEN @ ELSE message]
  /\ calls' = [calls EXCEPT ![d] = RemoveAt(@, i)]
  /\ lastCycle' = [lastCycle EXCEPT ![d] =
                     IF calls[d][i].kind = "syncNow" THEN CycleEnd(calls[d][i], "error") ELSE @]

\* setSyncStatus('success'); setTimeout(() => setSyncStatus(null), 3000)
Succeeded(d, i, c) ==
  /\ syncStatus' = [syncStatus EXCEPT ![d] = "success"]
  /\ UNCHANGED syncError
  /\ timers' = [timers EXCEPT ![d] = @ + 1]
  /\ calls' = [calls EXCEPT ![d] = RemoveAt(@, i)]
  /\ lastCycle' = [lastCycle EXCEPT ![d] =
                     IF c.kind = "syncNow" THEN CycleEnd(c, "success") ELSE @]

\* updateSyncData(code, data, version) up to its await: the PUT is on the wire
PutCall(c, data, version) ==
  [c EXCEPT !.pc = "PUT_sent", !.body = [data |-> data, version |-> version],
            !.read = Nothing, !.sent = Append(@, version)]

\* the Sync Now button
handleSyncNow(d) ==
  /\ syncCode[d] # NoCode
  /\ syncStatus[d] # "syncing"
  /\ syncs < MaxSyncs /\ CanAct(1)
  /\ Len(calls[d]) < overlap
  /\ calls' = StartCalls(d, Append(calls[d], SyncNowCall(d, 0, SeqToSet(usedWords[d]),
                                                          HistoryIds(gameHistory[d]))))
  /\ syncStatus' = [syncStatus EXCEPT ![d] = "syncing"]
  /\ syncError' = [syncError EXCEPT ![d] = NoError]
  /\ syncs' = syncs + 1
  /\ manual' = manual + 1
  /\ UNCHANGED <<stats, gameHistory, usedWords, settings, targetWord, wordSource, currentRow,
                gameStatus, showFeedbackModal, showVictoryDialog, syncCode, syncEnabled,
                syncVersion, timers, store, workerNow, clock, nextId, rounds, enters, failures,
                clears, wrong, timeouts, saves, unsaved, lastCycle, lastGame, lastMerge,
                lastResp, accepted, apiKey, overlap, pendingUnderstanding,
                mergeVars>>

\* handleSyncNow resumes from `await fetchSyncData(syncCode)`: merge, apply, first PUT
SyncNowGotRemote(d, i) ==
  LET c == calls[d][i]
      response == GetResponse(c.code)
  IN /\ c.kind = "syncNow"
     /\ c.pc = "GET_sent"
     /\ lastResp' = [lastResp EXCEPT ![d] = Received("GET", response)]
     /\ IF response.status # 200
          THEN /\ Caught(d, i, ErrorText(response, "Failed to fetch sync data"))
               /\ UNCHANGED <<stats, gameHistory, usedWords, settings, nextId, lastMerge>>
          ELSE LET remoteData == response.body
                   localData == prepareDataForSync(d)
                   mergedData == intelligentMerge(localData, remoteData.data, nextId, clock[d])
                   newVersion == remoteData.version + 1
               IN /\ applyMergedData(d, mergedData)
                  /\ nextId' = nextId + LegacyCount(localData) + LegacyCount(remoteData.data)
                  /\ lastMerge' = [lastMerge EXCEPT ![d] =
                                     Merged(localData, remoteData.data, mergedData)]
                  /\ SetCall(d, i, PutCall(c, mergedData, newVersion))
                  /\ UNCHANGED <<syncStatus, syncError, lastCycle>>
     /\ UNCHANGED <<targetWord, wordSource, currentRow, gameStatus, showFeedbackModal,
                   showVictoryDialog, syncCode, syncEnabled, syncVersion, timers, store,
                   workerNow, clock, rounds, syncs, manual, enters, failures, clears, wrong,
                   timeouts, saves, unsaved, lastGame, accepted, apiKey, overlap, pendingUnderstanding,
                mergeVars>>

\* the worker finishes the first PUT and handleSyncNow resumes from
\* `await updateSyncData(syncCode, mergedData, newVersion)`
SyncNowGotFirstPut(d, i) ==
  LET c == calls[d][i]
      updateResult == PutResponse(c.body, c.read)
  IN /\ c.kind = "syncNow"
     /\ c.pc = "PUT_read"
     /\ Len(c.sent) = 1
     /\ lastResp' = [lastResp EXCEPT ![d] = Received("PUT", updateResult)]
     /\ PutEffect(c)
     /\ IF updateResult.status = 200
          THEN /\ syncVersion' = [syncVersion EXCEPT ![d] = c.body.version]
               /\ Succeeded(d, i, c)
               /\ UNCHANGED <<stats, gameHistory, usedWords, settings, nextId, lastMerge>>
        ELSE IF updateResult.status = 409
          THEN LET newerMerged == intelligentMerge(c.body.data, updateResult.currentData.data,
                                                   nextId, clock[d])
                   retryVersion == updateResult.currentVersion + 1
                   noted == [c EXCEPT !.conflicts = Append(@, updateResult.currentVersion),
                                      !.remerges = @ + 1]
               IN /\ applyMergedData(d, newerMerged)
                  /\ nextId' = nextId + LegacyCount(c.body.data)
                                       + LegacyCount(updateResult.currentData.data)
                  /\ lastMerge' = [lastMerge EXCEPT ![d] =
                                     Merged(c.body.data, updateResult.currentData.data,
                                            newerMerged)]
                  /\ SetCall(d, i, PutCall(noted, newerMerged, retryVersion))
                  /\ UNCHANGED <<syncVersion, syncStatus, syncError, timers, lastCycle>>
        ELSE /\ Caught(d, i, ErrorText(updateResult, "Failed to update sync data"))
             /\ UNCHANGED <<stats, gameHistory, usedWords, settings, syncVersion, timers, nextId,
                            lastMerge>>
     /\ UNCHANGED <<targetWord, wordSource, currentRow, gameStatus, showFeedbackModal,
                   showVictoryDialog, syncCode, syncEnabled, clock, rounds, syncs, manual,
                   enters, failures, clears, wrong, timeouts, saves, unsaved, lastGame,
                   apiKey, overlap, pendingUnderstanding,
                mergeVars>>

\* the worker finishes the retry and handleSyncNow resumes from
\* `await updateSyncData(syncCode, newerMerged, retryVersion)`, whose value it does not
\* look at: 200, or the {conflict: true} that updateSyncData returns for 409, go on to
\* setSyncVersion(retryVersion) and 'success'; any other status was thrown
SyncNowGotRetryPut(d, i) ==
  LET c == calls[d][i]
      response == PutResponse(c.body, c.read)
      noted == IF response.status = 409
                 THEN [c EXCEPT !.conflicts = Append(@, response.currentVersion)]
                 ELSE c
  IN /\ c.kind = "syncNow"
     /\ c.pc = "PUT_read"
     /\ Len(c.sent) = 2
     /\ lastResp' = [lastResp EXCEPT ![d] = Received("PUT", response)]
     /\ PutEffect(c)
     /\ IF response.status \in {200, 409}
          THEN /\ syncVersion' = [syncVersion EXCEPT ![d] = c.body.version]
               /\ Succeeded(d, i, noted)
          ELSE /\ Caught(d, i, ErrorText(response, "Failed to update sync data"))
               /\ UNCHANGED <<syncVersion, timers>>
     /\ UNCHANGED <<stats, gameHistory, usedWords, settings, targetWord, wordSource, currentRow,
                   gameStatus, showFeedbackModal, showVictoryDialog, syncCode, syncEnabled,
                   clock, nextId, rounds, syncs, manual, enters, failures, clears, wrong,
                   timeouts, saves, unsaved, lastGame, lastMerge, apiKey, overlap, pendingUnderstanding,
                mergeVars>>

\* calls other than handleSyncNow carry the same fields
OtherCall(kind, pc, code, body) ==
  [kind |-> kind, pc |-> pc, code |-> code, body |-> body, read |-> Nothing,
   trigger |-> 0, sent |-> <<>>, conflicts |-> <<>>, remerges |-> 0, heldWords |-> {},
   heldIds |-> {}, no |-> 0, with |-> {}]

\* bookkeeping: POST /sync/generate requests not yet answered
Minting == {<<d, i>> \in Devices \X (1..overlap) :
              i <= Len(calls[d]) /\ calls[d][i].pc = "POST_sent"}

\* the Generate Sync Code button, up to `await generateSyncCode(localData)`
handleGenerateSyncCode(d) ==
  /\ syncCode[d] = NoCode
  /\ syncStatus[d] # "syncing"
  /\ Len(calls[d]) < overlap
  /\ Cardinality(Minted) + Cardinality(Minting) < MaxCodes
  /\ calls' = [calls EXCEPT ![d] =
                 Append(@, OtherCall("generate", "POST_sent", NoCode,
                                     [data |-> prepareDataForSync(d)]))]
  /\ syncStatus' = [syncStatus EXCEPT ![d] = "syncing"]
  /\ syncError' = [syncError EXCEPT ![d] = NoError]
  /\ UNCHANGED <<stats, gameHistory, usedWords, settings, targetWord, wordSource, currentRow,
                gameStatus, showFeedbackModal, showVictoryDialog, syncCode, syncEnabled,
                syncVersion, timers, store, workerNow, clock, nextId, rounds, syncs, manual,
                enters, failures, clears, wrong, timeouts, saves, unsaved, lastCycle, lastGame,
                lastMerge, lastResp, accepted, apiKey, overlap, pendingUnderstanding,
                mergeVars>>

\* the worker handles POST /sync/generate and handleGenerateSyncCode resumes with the code
GenerateGotCode(d, i) ==
  LET c == calls[d][i]
      code == FreshCode
  IN /\ c.kind = "generate"
     /\ c.pc = "POST_sent"
     /\ lastResp' = [lastResp EXCEPT ![d] = Received("POST", [status |-> 200, code |-> code])]
     /\ store' = [store EXCEPT ![code] = MintedRecord(c.body, workerNow)]
     /\ workerNow' = workerNow + 1
     /\ syncCode' = [syncCode EXCEPT ![d] = code]
     /\ syncVersion' = [syncVersion EXCEPT ![d] = 1]
     /\ syncEnabled' = [syncEnabled EXCEPT ![d] = TRUE]
     /\ Succeeded(d, i, c)
     /\ UNCHANGED <<stats, gameHistory, usedWords, settings, targetWord, wordSource, currentRow,
                   gameStatus, showFeedbackModal, showVictoryDialog, clock, nextId, rounds,
                   syncs, manual, enters, failures, clears, wrong, timeouts, saves, unsaved,
                   lastGame, lastMerge, accepted, apiKey, overlap, pendingUnderstanding,
                mergeVars>>

\* the Connect button with a well-formed code typed in, up to `await fetchSyncData(code)`
handleEnterSyncCode(d, syncCodeInput) ==
  /\ syncCode[d] = NoCode
  /\ syncStatus[d] # "syncing"
  /\ Len(calls[d]) < overlap
  /\ enters < MaxEnters
  /\ LET code == Text(ToUpperCase(Trim(Letters(syncCodeInput))))
     IN IF code = "" \/ Len(Letters(code)) # 9
          THEN /\ syncError' = [syncError EXCEPT ![d] = InvalidFormat]
               /\ UNCHANGED <<calls, syncStatus>>
          ELSE /\ calls' = [calls EXCEPT
                              ![d] = Append(@, OtherCall("enter", "GET_sent", code, Nothing))]
               /\ syncStatus' = [syncStatus EXCEPT ![d] = "syncing"]
               /\ syncError' = [syncError EXCEPT ![d] = NoError]
  /\ enters' = enters + 1
  /\ UNCHANGED <<stats, gameHistory, usedWords, settings, targetWord, wordSource, currentRow,
                gameStatus, showFeedbackModal, showVictoryDialog, syncCode, syncEnabled,
                syncVersion, timers, store, workerNow, clock, nextId, rounds, syncs, manual,
                failures, clears, wrong, timeouts, saves, unsaved, lastCycle, lastGame,
                lastMerge, lastResp, accepted, apiKey, overlap, pendingUnderstanding,
                mergeVars>>

\* handleEnterSyncCode resumes from `await fetchSyncData(code)`
EnterGotRemote(d, i) ==
  LET c == calls[d][i]
      response == GetResponse(c.code)
  IN /\ c.kind = "enter"
     /\ c.pc = "GET_sent"
     /\ lastResp' = [lastResp EXCEPT ![d] = Received("GET", response)]
     /\ IF response.status # 200
          THEN /\ Caught(d, i, ErrorText(response, "Failed to fetch sync data"))
               /\ UNCHANGED <<stats, gameHistory, usedWords, settings, syncCode, syncVersion,
                              syncEnabled, timers, nextId, lastMerge>>
          ELSE LET remoteData == response.body
                   localData == prepareDataForSync(d)
                   mergedData == intelligentMerge(localData, remoteData.data, nextId, clock[d])
               IN /\ applyMergedData(d, mergedData)
                  /\ nextId' = nextId + LegacyCount(localData) + LegacyCount(remoteData.data)
                  /\ lastMerge' = [lastMerge EXCEPT ![d] =
                                     Merged(localData, remoteData.data, mergedData)]
                  /\ syncCode' = [syncCode EXCEPT ![d] = c.code]
                  /\ syncVersion' = [syncVersion EXCEPT ![d] = remoteData.version]
                  /\ syncEnabled' = [syncEnabled EXCEPT ![d] = TRUE]
                  /\ Succeeded(d, i, c)
     /\ UNCHANGED <<targetWord, wordSource, currentRow, gameStatus, showFeedbackModal,
                   showVictoryDialog, store, workerNow, clock, rounds, syncs, manual, enters,
                   failures, clears, wrong, timeouts, saves, unsaved, lastGame, accepted,
                   apiKey, overlap, pendingUnderstanding,
                mergeVars>>

\* fetch() rejects before the request is served: the handler's catch runs
FetchFails(d, i) ==
  /\ calls[d][i].pc \in {"POST_sent", "GET_sent", "PUT_sent"}
  /\ failures < MaxFailures /\ CanAct(1)
  /\ failures' = failures + 1
  /\ Caught(d, i, FailedToFetch)
  /\ UNCHANGED <<stats, gameHistory, usedWords, settings, targetWord, wordSource, currentRow,
                gameStatus, showFeedbackModal, showVictoryDialog, syncCode, syncEnabled,
                syncVersion, timers, store, workerNow, clock, nextId, rounds, syncs, manual,
                enters, clears, wrong, timeouts, saves, unsaved, lastGame, lastMerge, lastResp,
                accepted, apiKey, overlap, pendingUnderstanding,
                mergeVars>>

\* setTimeout(() => setSyncStatus(null), 3000) fires
StatusTimeout(d) ==
  /\ timers[d] > 0
  /\ timeouts < MaxTimeouts /\ CanAct(1)
  /\ timeouts' = timeouts + 1
  /\ timers' = [timers EXCEPT ![d] = @ - 1]
  /\ syncStatus' = [syncStatus EXCEPT ![d] = "idle"]
  /\ UNCHANGED syncError
  /\ UNCHANGED <<stats, gameHistory, usedWords, settings, targetWord, wordSource, currentRow,
                gameStatus, showFeedbackModal, showVictoryDialog, syncCode, syncEnabled,
                syncVersion, calls, store, workerNow, clock, nextId, rounds, syncs, manual,
                enters, failures, clears, wrong, saves, unsaved, lastCycle, lastGame,
                lastMerge, lastResp, accepted, apiKey, overlap, pendingUnderstanding,
                mergeVars>>

\* bookkeeping: the suspended calls, by device and position
Suspended == {<<d, i>> \in Devices \X (1..overlap) : i <= Len(calls[d])}

Next ==
  \/ \E d \in Devices : handleSubmit(d)
  \/ \E d \in Devices : handleCloseFeedback(d)
  \/ \E d \in Devices : handleLearnClick(d)
  \/ \E d \in Devices : resetGame(d)
  \/ \E d \in Devices : handleClearUsedWords(d)
  \/ \E d \in Devices : handleSyncNow(d)
  \/ \E d \in Devices : handleGenerateSyncCode(d)
  \/ \E d \in Devices, code \in SyncCodes : handleEnterSyncCode(d, code)
  \/ \E d \in Devices : StatusTimeout(d)
  \/ \E s \in Suspended : WorkerPutRead(s[1], s[2])
  \/ \E s \in Suspended : SyncNowGotRemote(s[1], s[2])
  \/ \E s \in Suspended : SyncNowGotFirstPut(s[1], s[2])
  \/ \E s \in Suspended : SyncNowGotRetryPut(s[1], s[2])
  \/ \E s \in Suspended : GenerateGotCode(s[1], s[2])
  \/ \E s \in Suspended : EnterGotRemote(s[1], s[2])
  \/ \E s \in Suspended : FetchFails(s[1], s[2])

Spec == Init /\ [][Next]_vars

(***************************************************************************)
(* intelligentMerge on its own: the two snapshots are drawn from the        *)
(* records an installation can hold, and merged once.                       *)
(***************************************************************************)
\* a history entry written by addGameToHistory
GameIn(id, t) ==
  [id |-> id, w |-> WordList[id], r |-> IF id = 1 THEN 3 ELSE -1, src |-> "list", t |-> t]

\* a history entry written before entries had `id` and `t`
LegacyGame == [w |-> WordList[MaxIds + 1], r |-> 2, src |-> "ai"]

EntriesIn == {GameIn(id, t) : id \in 1..MaxIds, t \in 1..MaxTime} \cup {LegacyGame}

\* logs of at most MaxHistLen entries, in any order, no id twice
HistoriesIn ==
  {h \in UNION {[1..n -> EntriesIn] : n \in 0..MaxHistLen} :
     \A i, j \in 1..Len(h) : (i < j /\ Has(h[i], "id") /\ Has(h[j], "id")) => h[i].id # h[j].id}

\* a game as updateStatistics sees it: status, guesses used, word source
OutcomesIn == {<<"won", 1, "list">>, <<"won", 2, "ai">>, <<"lost", MAX_ATTEMPTS, "list">>}

\* the statistics after a sequence of games
RECURSIVE StatsAfter(_)
StatsAfter(games) ==
  IF games = <<>> THEN getInitialStats
  ELSE LET g == games[Len(games)]
       IN updateStatistics(StatsAfter(SubSeq(games, 1, Len(games) - 1)), g[1], g[2], g[3])

\* statistics stored before aiWords and listWords existed
LegacyStats(st) == [k \in DOMAIN st \ {"aiWords", "listWords"} |-> st[k]]

StatsOfGames(n) == {StatsAfter(g) : g \in UNION {[1..k -> OutcomesIn] : k \in 0..n}}

StatsIn == StatsOfGames(MaxGamesIn) \cup {LegacyStats(st) : st \in StatsOfGames(MaxGamesIn)}

DataIn(st, h) ==
  [stats |-> st, gameHistory |-> h, usedWords |-> Dedup([i \in 1..Len(h) |-> h[i].w]),
   settings |-> DefaultSettings]

\* every statistics with a short log, and every log with the statistics of a short past
MergeInputs ==
  {DataIn(st, h) : st \in StatsIn, h \in {g \in HistoriesIn : Len(g) <= 1}}
    \cup {DataIn(st, h) : st \in StatsOfGames(1), h \in HistoriesIn}

InitMerge ==
  /\ InitSystem
  /\ targetWord = [d \in Devices |-> WordList[1]]
  /\ currentRow = [d \in Devices |-> 0]
  /\ mLocal \in MergeInputs
  /\ mRemote = Nothing
  /\ mOut = Nothing
  /\ mNow = 0
  /\ InitStatsIdle
  /\ InitBoardIdle
  /\ InitRoundIdle

\* intelligentMerge(localData, remoteData); generateUUID() hands out ids no entry has
DoMerge ==
  /\ mOut = Nothing
  /\ \E remoteData \in MergeInputs, now \in 1..(MaxTime + 1) :
       /\ mRemote' = remoteData
       /\ mNow' = now
       /\ mOut' = intelligentMerge(mLocal, remoteData, MaxIds + 1, now)
  /\ UNCHANGED <<sysVars, mLocal, sIn, sArgs, sInAfter, sOut, bTarget, bGuess, bRow, roundVars>>

NextMerge == DoMerge

SpecMerge == InitMerge /\ [][NextMerge]_vars

(***************************************************************************)
(* intelligentMerge on its own, on wider inputs: snapshots that differ in   *)
(* their settings, in their used words, in a rating, and histories long     *)
(* enough to reach the cap.                                                 *)
(***************************************************************************)
Snapshot(st, h, w, s) == [stats |-> st, gameHistory |-> h, usedWords |-> w, settings |-> s]

\* settings: {}
NoSettings == [k \in {} |-> TRUE]

\* the snapshot of an installation that has recorded nothing
EmptySnapshot == Snapshot(getInitialStats, <<>>, <<>>, NoSettings)

SettingKeys == {"aiEnabled", "showReasoning", "tier2Focus", "extendedInfo"}

\* settings objects: each preference absent, false or true
SettingsIn == UNION {[ks -> BOOLEAN] : ks \in SUBSET SettingKeys}

\* a settings object that carries the API key as well
WithAPIKey(s) ==
  [k \in DOMAIN s \cup {"apiKey"} |-> IF k = "apiKey" THEN StoredKey ELSE s[k]]

\* snapshots with any settings object, or with no settings field at all
SettingsInputs ==
  {Snapshot(getInitialStats, <<>>, <<>>, s) :
     s \in SettingsIn \cup {WithAPIKey(x) : x \in SettingsIn}}
    \cup {[stats |-> getInitialStats, gameHistory |-> <<>>, usedWords |-> <<>>]}

\* usedWords arrays of at most MaxWordsIn words
WordsIn == UNION {[1..n -> SeqToSet(WordList)] : n \in 0..MaxWordsIn}

WordsInputs == {Snapshot(getInitialStats, <<>>, w, DefaultSettings) : w \in WordsIn}

\* startGameWithWord: history[history.length - 1].u = pendingRating
Rated(game) == [k \in DOMAIN game \cup {"u"} |-> IF k = "u" THEN 3 ELSE game[k]]

\* histories of entries recorded at the same time, one of them also in its rated form
RatedHistories ==
  LET entries == {GameIn(id, 1) : id \in 1..2} \cup {Rated(GameIn(1, 1))}
  IN {h \in UNION {[1..n -> entries] : n \in 0..2} :
        \A i, j \in 1..Len(h) : i < j => h[i].id # h[j].id}

RatedInputs == {Snapshot(getInitialStats, h, <<>>, DefaultSettings) : h \in RatedHistories}

LongGame(id, t) ==
  [id |-> id, w |-> WordList[(id % Len(WordList)) + 1], r |-> -1, src |-> "list", t |-> t]

\* how the timestamps run along a stored history
Patterns == {"ascending", "descending", "flat", "saw"}

TimeAt(p, k, n) ==
  CASE p = "ascending" -> k
    [] p = "descending" -> n + 1 - k
    [] p = "flat" -> 1
    [] p = "saw" -> (k % 3) + 1

\* a stored history of n entries with ids from `first` on, the last one without id
\* if `legacy`
LongHistory(n, first, p, legacy) ==
  [k \in 1..n |-> IF legacy /\ k = n THEN LegacyGame
                  ELSE LongGame(first + k - 1, TimeAt(p, k, n))]

\* saveGameHistory keeps a stored history at MAX_HISTORY_SIZE entries or fewer
LongLens == {1, MAX_HISTORY_SIZE - 1, MAX_HISTORY_SIZE}

LongOf(first) ==
  {Snapshot(getInitialStats, LongHistory(n, first, p, legacy), <<>>, DefaultSettings) :
     n \in LongLens, p \in Patterns, legacy \in BOOLEAN}

LongLocal == LongOf(1)

\* remote ids equal to the local ones, overlapping them, or disjoint from them
LongRemote == LongOf(1) \cup LongOf((MAX_HISTORY_SIZE \div 2) + 1) \cup LongOf(MAX_HISTORY_SIZE + 1)

WideLocals ==
  {EmptySnapshot} \cup MergeInputs \cup SettingsInputs \cup WordsInputs \cup RatedInputs
    \cup LongLocal

\* the remote snapshots a local one is merged with
RemotesFor(localData) ==
  {EmptySnapshot} \cup
    (IF localData = EmptySnapshot
       THEN MergeInputs \cup SettingsInputs \cup WordsInputs \cup RatedInputs \cup LongRemote
     ELSE IF localData \in SettingsInputs THEN SettingsInputs
     ELSE IF localData \in WordsInputs THEN WordsInputs
     ELSE IF localData \in RatedInputs THEN RatedInputs
     ELSE IF localData \in LongLocal THEN LongRemote
     ELSE {localData})

\* Date.now() during the merge: before, among and after the entries' timestamps
WideNows == {1, MAX_HISTORY_SIZE \div 2, MAX_HISTORY_SIZE + 1}

\* the first id generateUUID() hands out: one no entry has
FreshIdWide == (2 * MAX_HISTORY_SIZE) + 1

InitWide ==
  /\ InitSystem
  /\ targetWord = [d \in Devices |-> WordList[1]]
  /\ currentRow = [d \in Devices |-> 0]
  /\ mLocal \in WideLocals
  /\ mRemote = Nothing
  /\ mOut = Nothing
  /\ mNow = 0
  /\ InitStatsIdle
  /\ InitBoardIdle
  /\ InitRoundIdle

DoMergeWide ==
  /\ mLocal # Nothing
  /\ mOut = Nothing
  /\ \E remoteData \in RemotesFor(mLocal), now \in WideNows :
       /\ mRemote' = remoteData
       /\ mNow' = now
       /\ mOut' = intelligentMerge(mLocal, remoteData, FreshIdWide, now)
  /\ UNCHANGED <<sysVars, mLocal, sIn, sArgs, sInAfter, sOut, bTarget, bGuess, bRow, roundVars>>

NextWide == DoMergeWide

SpecWide == InitWide /\ [][NextWide]_vars

(***************************************************************************)
(* The sync path as a whole: the two installations and the worker, and     *)
(* intelligentMerge handed settings objects that carry the API key         *)
(***************************************************************************)
KeyLocals == {x \in SettingsInputs : Has(x, "settings") /\ Has(x.settings, "apiKey")}

InitKey ==
  /\ InitSystem
  /\ \/ mLocal = Nothing
     \/ /\ mLocal \in KeyLocals
        /\ targetWord = [d \in Devices |-> WordList[1]]
        /\ currentRow = [d \in Devices |-> 0]
  /\ mRemote = Nothing
  /\ mOut = Nothing
  /\ mNow = 0
  /\ InitStatsIdle
  /\ InitBoardIdle
  /\ InitRoundIdle

NextKey ==
  \/ (mLocal = Nothing /\ Next)
  \/ DoMergeWide

SpecKey == InitKey /\ [][NextKey]_vars

(***************************************************************************)
(* Two connected installations, with calls of one device overlapping:      *)
(* the behaviours start when device A has generated a sync code on a fresh *)
(* installation and device B has entered it, and a device may start a call *)
(* while another one of its calls is suspended                             *)
(***************************************************************************)
\* the record POST /sync/generate stored for device A
FirstRecord ==
  MintedRecord([data |-> Snapshot(getInitialStats, <<>>, <<>>, DefaultSettings)], 1)

InitRace ==
  /\ stats = [d \in Devices |-> getInitialStats]
  /\ gameHistory = [d \in Devices |-> <<>>]
  /\ usedWords = [d \in Devices |-> <<>>]
  /\ settings = [d \in Devices |-> DefaultSettings]
  /\ apiKey = [d \in Devices |-> IF d = "A" THEN StoredKey ELSE NoKey]
  /\ pendingUnderstanding = [d \in Devices |-> NoRating]
  /\ overlap = MaxInFlight + 1
  /\ targetWord \in {f \in [Devices -> ANSWER_WORDS] : f["A"] = WordList[1]}
  /\ wordSource = [d \in Devices |-> "list"]
  /\ currentRow = [d \in Devices |-> IF d = "A" THEN MAX_ATTEMPTS - 1 ELSE 0]
  /\ gameStatus = [d \in Devices |-> "playing"]
  /\ showFeedbackModal = [d \in Devices |-> FALSE]
  /\ showVictoryDialog = [d \in Devices |-> FALSE]
  /\ syncCode = [d \in Devices |-> CodeList[1]]
  /\ syncEnabled = [d \in Devices |-> TRUE]
  /\ syncVersion = [d \in Devices |-> 1]
  /\ syncStatus = [d \in Devices |-> "success"]
  /\ syncError = [d \in Devices |-> NoError]
  /\ timers = [d \in Devices |-> 1]
  /\ calls = [d \in Devices |-> <<>>]
  /\ store = [c \in SyncCodes |-> IF c = CodeList[1] THEN FirstRecord ELSE Nothing]
  /\ workerNow = 2
  /\ clock = [d \in Devices |-> 0]
  /\ nextId = 1
  /\ rounds = 0
  /\ syncs = 0
  /\ manual = 0
  /\ enters = 1
  /\ failures = 0
  /\ clears = 0
  /\ wrong = 0
  /\ timeouts = 0
  /\ saves = [d \in Devices |-> 0]
  /\ unsaved = [d \in Devices |-> 0]
  /\ lastCycle = [d \in Devices |-> Nothing]
  /\ lastGame = [d \in Devices |-> Nothing]
  /\ lastMerge = [d \in Devices |->
                    IF d = "A" THEN Nothing
                    ELSE [local |-> FirstRecord.data, remote |-> FirstRecord.data,
                          out |-> FirstRecord.data,
                          last |-> [e \in Devices |-> Nothing]]]
  /\ lastResp = [d \in Devices |->
                   IF d = "A" THEN Received("POST", [status |-> 200, code |-> CodeList[1]])
                   ELSE Received("GET", [status |-> 200, body |-> FirstRecord])]
  /\ accepted = [c \in SyncCodes |-> <<>>]
  /\ InitMergeIdle
  /\ InitStatsIdle
  /\ InitBoardIdle
  /\ InitRoundIdle

NextRace ==
  \/ \E d \in Devices : handleSubmit(d)
  \/ \E d \in Devices : handleCloseFeedback(d)
  \/ \E d \in Devices : handleLearnClick(d)
  \/ \E d \in Devices : resetGame(d)
  \/ \E d \in Devices : handleSyncNow(d)
  \/ \E d \in Devices : StatusTimeout(d)
  \/ \E s \in Suspended : WorkerPutRead(s[1], s[2])
  \/ \E s \in Suspended : SyncNowGotRemote(s[1], s[2])
  \/ \E s \in Suspended : SyncNowGotFirstPut(s[1], s[2])
  \/ \E s \in Suspended : SyncNowGotRetryPut(s[1], s[2])

SpecRace == InitRace /\ [][NextRace]_vars

(***************************************************************************)
(* updateStatistics on its own                                             *)
(***************************************************************************)
\* updateStatistics(currentStats, status, guessCount, source): the arguments
StatusIn == {"won", "lost"}

SourcesIn == {"ai", "list"}

InitStats ==
  /\ InitSystem
  /\ targetWord = [d \in Devices |-> WordList[1]]
  /\ currentRow = [d \in Devices |-> 0]
  /\ InitMergeIdle
  /\ InitBoardIdle
  /\ InitRoundIdle
  /\ sIn \in StatsIn
  /\ sArgs = Nothing
  /\ sInAfter = Nothing
  /\ sOut = Nothing

DoUpdate ==
  /\ sIn # Nothing
  /\ sOut = Nothing
  /\ \E status \in StatusIn, guessCount \in 1..MAX_ATTEMPTS, source \in SourcesIn :
       /\ sArgs' = [status |-> status, guessCount |-> guessCount, source |-> source]
       /\ sOut' = updateStatistics(sIn, status, guessCount, source)
       /\ sInAfter' = currentStatsAfter(sIn, status, guessCount)
  /\ UNCHANGED <<sysVars, mLocal, mRemote, mOut, mNow, sIn, bTarget, bGuess, bRow, roundVars>>

NextStats == DoUpdate

SpecStats == InitStats /\ [][NextStats]_vars

(***************************************************************************)
(* updateStatistics called in sequence, from the initial statistics:       *)
(* stats = updateStatistics(stats, ...), and resetStats() in between       *)
(***************************************************************************)
InitChain ==
  /\ InitSystem
  /\ targetWord = [d \in Devices |-> WordList[1]]
  /\ currentRow = [d \in Devices |-> 0]
  /\ InitMergeIdle
  /\ InitBoardIdle
  /\ InitRoundIdle
  /\ sIn = getInitialStats
  /\ sArgs = Nothing
  /\ sInAfter = Nothing
  /\ sOut = Nothing

ChainUpdate == sIn.played < MaxPlayed /\ DoUpdate

\* the value returned becomes the statistics the next call is given
KeepResult ==
  /\ sOut # Nothing
  /\ sIn' = sOut
  /\ sArgs' = Nothing
  /\ sInAfter' = Nothing
  /\ sOut' = Nothing
  /\ UNCHANGED <<sysVars, mLocal, mRemote, mOut, mNow, bTarget, bGuess, bRow, roundVars>>

\* resetStats(): a fresh getInitialStats()
resetStats ==
  /\ sOut = Nothing
  /\ sIn # getInitialStats
  /\ sIn' = getInitialStats
  /\ UNCHANGED <<sysVars, mLocal, mRemote, mOut, mNow, sArgs, sInAfter, sOut, bTarget, bGuess, bRow, roundVars>>

NextChain == ChainUpdate \/ KeepResult \/ resetStats

SpecChain == InitChain /\ [][NextChain]_vars

(***************************************************************************)
(* The history log of an installation that holds the games of another one: *)
(* finished games, ratings, new rounds and merges of a remote log          *)
(***************************************************************************)
\* the other installation's clock ran this far ahead when it recorded its first game
LogOffset == 10

\* finished games recorded in one behaviour
MaxLogGames == 2

\* merges of a remote log in one behaviour
MaxLogMerges == 1

\* new rounds started in one behaviour
MaxLogRounds == 2

\* the rating buttons pressed
Ratings == {3, 7}

\* Date.now() on the installation: behind the other installation's clock, or ahead of it
LogTimes == {1, 2, LogOffset + MAX_HISTORY_SIZE + 1}

\* the history intelligentMerge leaves: n games of the other installation, by timestamp
MergedLog(n, first) == [k \in 1..n |-> LongGame(first + k - 1, LogOffset + k)]

LogLens == {0, MAX_HISTORY_SIZE - 1, MAX_HISTORY_SIZE}

\* the ids generateUUID() has not returned yet
FirstLogId == (2 * MAX_HISTORY_SIZE) + 1

\* the remote data of a code: the same games, or games partly or all different
RemoteLogs ==
  {Snapshot(getInitialStats, MergedLog(n, first), <<>>, DefaultSettings) :
     n \in {MAX_HISTORY_SIZE}, first \in {1, (MAX_HISTORY_SIZE \div 2) + 1, MAX_HISTORY_SIZE + 1}}

InitLog ==
  /\ stats = [d \in Devices |-> getInitialStats]
  /\ gameHistory \in {[d \in Devices |-> IF d = "A" THEN MergedLog(n, 1) ELSE <<>>] : n \in LogLens}
  /\ usedWords = [d \in Devices |-> <<>>]
  /\ settings = [d \in Devices |-> DefaultSettings]
  /\ apiKey = [d \in Devices |-> IF d = "A" THEN StoredKey ELSE NoKey]
  /\ pendingUnderstanding = [d \in Devices |-> NoRating]
  /\ overlap = MaxInFlight
  /\ targetWord = [d \in Devices |-> WordList[1]]
  /\ wordSource = [d \in Devices |-> "list"]
  /\ currentRow = [d \in Devices |-> 0]
  /\ gameStatus = [d \in Devices |-> "playing"]
  /\ showFeedbackModal = [d \in Devices |-> FALSE]
  /\ showVictoryDialog = [d \in Devices |-> FALSE]
  /\ syncCode = [d \in Devices |-> NoCode]
  /\ syncEnabled = [d \in Devices |-> FALSE]
  /\ syncVersion = [d \in Devices |-> 0]
  /\ syncStatus = [d \in Devices |-> "idle"]
  /\ syncError = [d \in Devices |-> NoError]
  /\ timers = [d \in Devices |-> 0]
  /\ calls = [d \in Devices |-> <<>>]
  /\ store = [c \in SyncCodes |-> Nothing]
  /\ workerNow = 1
  /\ clock = [d \in Devices |-> 0]
  /\ nextId = FirstLogId
  /\ rounds = 0
  /\ syncs = 0
  /\ manual = 0
  /\ enters = 0
  /\ failures = 0
  /\ clears = 0
  /\ wrong = 0
  /\ timeouts = 0
  /\ saves = [d \in Devices |-> 0]
  /\ unsaved = [d \in Devices |-> 0]
  /\ lastCycle = [d \in Devices |-> Nothing]
  /\ lastGame = [d \in Devices |-> Nothing]
  /\ lastMerge = [d \in Devices |-> Nothing]
  /\ lastResp = [d \in Devices |-> Nothing]
  /\ accepted = [c \in SyncCodes |-> <<>>]
  /\ InitMergeIdle
  /\ InitStatsIdle
  /\ InitBoardIdle
  /\ InitRoundIdle

\* addGameToHistory(word, result, null, source) when a game is over
LogGame(d) ==
  /\ nextId < FirstLogId + MaxLogGames
  /\ \E now \in {t \in LogTimes : t > clock[d]}, word \in {WordList[1]}, result \in {3} :
       /\ gameHistory' = [gameHistory EXCEPT
                            ![d] = addGameToHistory(@, word, result, "list", nextId, now)]
       /\ lastGame' = [lastGame EXCEPT ![d] = [id |-> nextId, t |-> now, r |-> result,
                                                w |-> targetWord[d]]]
       /\ clock' = [clock EXCEPT ![d] = now]
       /\ nextId' = nextId + 1
  /\ UNCHANGED <<stats, usedWords, settings, apiKey, overlap, pendingUnderstanding, targetWord,
                wordSource, currentRow, gameStatus, showFeedbackModal, showVictoryDialog,
                syncCode, syncEnabled, syncVersion, syncStatus, syncError, timers, calls, store,
                workerNow, rounds, syncs, manual, enters, failures, clears, wrong, timeouts,
                saves, unsaved, lastCycle, lastMerge, lastResp, accepted, mergeVars>>

\* handleUnderstandingRating(rating)
handleUnderstandingRating(d) ==
  /\ \E rating \in Ratings : pendingUnderstanding' = [pendingUnderstanding EXCEPT ![d] = rating]
  /\ UNCHANGED <<stats, gameHistory, usedWords, settings, apiKey, overlap, targetWord,
                wordSource, currentRow, gameStatus, showFeedbackModal, showVictoryDialog,
                syncCode, syncEnabled, syncVersion, syncStatus, syncError, timers, calls, store,
                workerNow, clock, nextId, rounds, syncs, manual, enters, failures, clears,
                wrong, timeouts, saves, unsaved, lastCycle, lastGame, lastMerge, lastResp,
                accepted, mergeVars>>

\* startGameWithWord, its part on the history and the pending rating
LogRound(d) ==
  /\ rounds < MaxLogRounds
  /\ gameHistory' = [gameHistory EXCEPT ![d] = startGameWithWord(@, pendingUnderstanding[d])]
  /\ pendingUnderstanding' = [pendingUnderstanding EXCEPT ![d] = NoRating]
  /\ rounds' = rounds + 1
  /\ UNCHANGED <<stats, usedWords, settings, apiKey, overlap, targetWord,
                wordSource, currentRow, gameStatus, showFeedbackModal, showVictoryDialog,
                syncCode, syncEnabled, syncVersion, syncStatus, syncError, timers, calls, store,
                workerNow, clock, nextId, syncs, manual, enters, failures, clears,
                wrong, timeouts, saves, unsaved, lastCycle, lastGame, lastMerge, lastResp,
                accepted, mergeVars>>

\* applyMergedData(intelligentMerge(prepareDataForSync(), remoteData.data)), its part
\* on the history
LogMerge(d) ==
  /\ syncs < MaxLogMerges
  /\ \E remoteData \in RemoteLogs :
       gameHistory' = [gameHistory EXCEPT
                         ![d] = saveGameHistory(intelligentMerge(prepareDataForSync(d), remoteData,
                                                                 nextId, clock[d]).gameHistory)]
  /\ syncs' = syncs + 1
  /\ UNCHANGED <<stats, usedWords, settings, apiKey, overlap, pendingUnderstanding, targetWord,
                wordSource, currentRow, gameStatus, showFeedbackModal, showVictoryDialog,
                syncCode, syncEnabled, syncVersion, syncStatus, syncError, timers, calls, store,
                workerNow, clock, nextId, rounds, manual, enters, failures, clears, wrong,
                timeouts, saves, unsaved, lastCycle, lastGame, lastMerge, lastResp, accepted,
                mergeVars>>

\* the installation that plays; the other one only provides the remote logs
LogDevice == "A"

NextLog ==
  \/ LogGame(LogDevice)
  \/ handleUnderstandingRating(LogDevice)
  \/ LogRound(LogDevice)
  \/ LogMerge(LogDevice)

SpecLog == InitLog /\ [][NextLog]_vars

(***************************************************************************)
(* The sync status under the scheduling of the page: a timer that was set  *)
(* fires, and a fetch() that was started settles (a response or a          *)
(* rejection).  The players only use the sync controls.                    *)
(***************************************************************************)
\* setTimeout(() => setSyncStatus(null), 3000) fires, whatever else happened
TimerFires(d) ==
  /\ timers[d] > 0
  /\ timers' = [timers EXCEPT ![d] = @ - 1]
  /\ syncStatus' = [syncStatus EXCEPT ![d] = "idle"]
  /\ UNCHANGED syncError
  /\ UNCHANGED <<stats, gameHistory, usedWords, settings, targetWord, wordSource, currentRow,
                gameStatus, showFeedbackModal, showVictoryDialog, syncCode, syncEnabled,
                syncVersion, calls, store, workerNow, clock, nextId, rounds, syncs, manual,
                enters, failures, clears, wrong, timeouts, saves, unsaved, lastCycle, lastGame,
                lastMerge, lastResp, accepted, apiKey, overlap, pendingUnderstanding,
                mergeVars>>

\* the await of the device's i-th suspended call resumes
Settles(d, i) ==
  /\ i <= Len(calls[d])
  /\ \/ WorkerPutRead(d, i)
     \/ SyncNowGotRemote(d, i)
     \/ SyncNowGotFirstPut(d, i)
     \/ SyncNowGotRetryPut(d, i)
     \/ GenerateGotCode(d, i)
     \/ EnterGotRemote(d, i)
     \/ FetchFails(d, i)

NextLive ==
  \/ \E d \in Devices : handleSyncNow(d)
  \/ \E d \in Devices : handleGenerateSyncCode(d)
  \/ \E d \in Devices, code \in SyncCodes : handleEnterSyncCode(d, code)
  \/ \E d \in Devices : TimerFires(d)
  \/ \E s \in Suspended : Settles(s[1], s[2])

SpecLive ==
  /\ Init
  /\ [][NextLive]_vars
  /\ \A d \in Devices : WF_vars(TimerFires(d))
  /\ \A d \in Devices : \A i \in 1..MaxInFlight : WF_vars(Settles(d, i))

(***************************************************************************)
(* The sync controls with the codes a player may type, and the sync on     *)
(* load when the page is opened again                                      *)
(***************************************************************************)
\* what is typed into the sync code field: a code, the same code in lower case with
\* blanks around it, nine characters without the dash, four characters, nothing
TypedIn == {CodeList[1], " abcd-2345 ", "ABCDE2345", "ABCD", ""}

\* the page is opened again while none of its requests is in flight: the states start
\* from their initial values or from storage, then syncOnLoad runs up to
\* `await fetchSyncData(syncCode)`
syncOnLoad(d) ==
  /\ calls[d] = <<>>
  /\ NoModal(d)
  /\ syncStatus' = [syncStatus EXCEPT ![d] = "idle"]
  /\ syncError' = [syncError EXCEPT ![d] = NoError]
  /\ timers' = [timers EXCEPT ![d] = 0]
  /\ calls' = [calls EXCEPT ![d] =
                 IF syncEnabled[d] /\ syncCode[d] # NoCode /\ Len(Letters(syncCode[d])) = 9
                   THEN <<OtherCall("load", "GET_sent", syncCode[d], Nothing)>>
                   ELSE <<>>]
  /\ UNCHANGED <<stats, gameHistory, usedWords, settings, targetWord, wordSource, currentRow,
                gameStatus, showFeedbackModal, showVictoryDialog, syncCode, syncEnabled,
                syncVersion, store, workerNow, clock, nextId, rounds, syncs, manual,
                enters, failures, clears, wrong, timeouts, saves, unsaved, lastCycle, lastGame,
                lastMerge, lastResp, accepted, apiKey, overlap, pendingUnderstanding,
                mergeVars>>

\* syncOnLoad resumes from `await fetchSyncData(syncCode)`
LoadGotRemote(d, i) ==
  LET c == calls[d][i]
      response == GetResponse(c.code)
  IN /\ i <= Len(calls[d])
     /\ c.kind = "load"
     /\ c.pc = "GET_sent"
     /\ lastResp' = [lastResp EXCEPT ![d] = Received("GET", response)]
     /\ calls' = [calls EXCEPT ![d] = RemoveAt(@, i)]
     /\ IF response.status # 200
          THEN UNCHANGED <<stats, gameHistory, usedWords, settings, nextId, lastMerge>>
          ELSE LET remoteData == response.body
                   localData == prepareDataForSync(d)
                   mergedData == intelligentMerge(localData, remoteData.data, nextId, clock[d])
               IN /\ applyMergedData(d, mergedData)
                  /\ nextId' = nextId + LegacyCount(localData) + LegacyCount(remoteData.data)
                  /\ lastMerge' = [lastMerge EXCEPT ![d] =
                                     Merged(localData, remoteData.data, mergedData)]
     /\ UNCHANGED <<targetWord, wordSource, currentRow, gameStatus, showFeedbackModal,
                   showVictoryDialog, syncCode, syncEnabled, syncVersion, syncStatus, syncError,
                   timers, store, workerNow, clock, rounds, syncs, manual, enters, failures,
                   clears, wrong, timeouts, saves, unsaved, lastCycle, lastGame, accepted,
                   apiKey, overlap, pendingUnderstanding, mergeVars>>

NextCodes ==
  \/ \E d \in Devices, syncCodeInput \in TypedIn : handleEnterSyncCode(d, syncCodeInput)
  \/ \E d \in Devices : handleGenerateSyncCode(d)
  \/ \E d \in Devices : handleSyncNow(d)
  \/ \E d \in Devices : syncOnLoad(d)
  \/ \E s \in Suspended : LoadGotRemote(s[1], s[2])
  \/ \E s \in Suspended : Settles(s[1], s[2])
  \/ \E d \in Devices : StatusTimeout(d)

SpecCodes == Init /\ [][NextCodes]_vars

(***************************************************************************)
(* The colours of a row of the board: getLetterStatus on every target word *)
(* and guess over a small alphabet                                         *)
(***************************************************************************)
WORD_LENGTH == 5

\* the letters the words of this specification are written with
BoardLetters == {"A", "B", "C"}

BoardWords == [1..WORD_LENGTH -> BoardLetters]

\* targetWord.split('').filter(l => l === letter).length
CountIn(word, letter) == Cardinality({i \in 1..Len(word) : word[i] = letter})

\* getLetterStatus: usedCount after the loop over the exact matches and n rounds of the
\* loop over the positions before `position`
RECURSIVE usedCount(_, _, _, _)
usedCount(guess, target, letter, n) ==
  IF n = 0
    THEN Cardinality({i \in 1..Len(guess) : guess[i] = letter /\ target[i] = letter})
    ELSE LET before == usedCount(guess, target, letter, n - 1)
         IN IF guess[n] = letter /\ target[n] # letter /\ before < CountIn(target, letter)
              THEN before + 1
              ELSE before

\* a variant: a letter of the target word is 'present' wherever it is not 'correct'
getLetterStatus_plain(letter, position, rowIndex, rows, row, status, target) ==
  IF rowIndex > row THEN ""
  ELSE IF rowIndex = row /\ status = "playing" THEN ""
  ELSE IF rows[rowIndex + 1] = <<>> THEN ""
  ELSE IF target[position] = letter THEN "correct"
  ELSE IF CountIn(target, letter) > 0 THEN "present"
  ELSE "absent"

\* a variant: an earlier 'present' of the same letter comes before the exact match
getLetterStatus_greedy(letter, position, rowIndex, rows, row, status, target) ==
  IF rowIndex > row THEN ""
  ELSE IF rowIndex = row /\ status = "playing" THEN ""
  ELSE IF rows[rowIndex + 1] = <<>> THEN ""
  ELSE IF Cardinality({i \in 1..(position - 1) : rows[rowIndex + 1][i] = letter})
            < CountIn(target, letter)
    THEN IF target[position] = letter THEN "correct" ELSE "present"
  ELSE "absent"

\* a variant: only the exact matches use up the count
getLetterStatus_exactOnly(letter, position, rowIndex, rows, row, status, target) ==
  IF rowIndex > row THEN ""
  ELSE IF rowIndex = row /\ status = "playing" THEN ""
  ELSE IF rows[rowIndex + 1] = <<>> THEN ""
  ELSE IF target[position] = letter THEN "correct"
  ELSE IF CountIn(target, letter) > 0
          /\ usedCount(rows[rowIndex + 1], target, letter, 0) < CountIn(target, letter)
    THEN "present"
  ELSE "absent"

\* getLetterStatus(letter, position, rowIndex) with the states it reads (guesses,
\* currentRow, gameStatus, targetWord); rowIndex and row count from 0 as in the code,
\* position from 1 (the code's position + 1), "" is the empty status and <<>> the
\* empty guess
getLetterStatus(letter, position, rowIndex, rows, row, status, target) ==
  IF rowIndex > row THEN ""
  ELSE IF rowIndex = row /\ status = "playing" THEN ""
  ELSE LET guess == rows[rowIndex + 1]
       IN IF guess = <<>> THEN ""
          ELSE IF target[position] = letter THEN "correct"
          ELSE IF CountIn(target, letter) > 0
                  /\ usedCount(guess, target, letter, position - 1) < CountIn(target, letter)
            THEN "present"
          ELSE "absent"

InitBoard ==
  /\ InitSystem
  /\ InitMergeIdle
  /\ InitStatsIdle
  /\ InitRoundIdle
  /\ bTarget \in BoardWords
  /\ bGuess \in BoardWords
  /\ bRow = Nothing

\* the board draws the row of the guess that handleSubmit has taken: row 0, with the
\* status and the current row as handleSubmit left them
DrawRow ==
  /\ bRow = Nothing
  /\ bRow' = [position \in 1..WORD_LENGTH |->
                getLetterStatus(bGuess[position], position, 0,
                                <<bGuess, <<>>, <<>>, <<>>, <<>>, <<>>>>,
                                IF bGuess = bTarget THEN 0 ELSE 1,
                                IF bGuess = bTarget THEN "won" ELSE "playing",
                                bTarget)]
  /\ UNCHANGED <<sysVars, mLocal, mRemote, mOut, mNow, sIn, sArgs, sInAfter, sOut, bTarget, bGuess, roundVars>>

NextBoard == DrawRow

SpecBoard == InitBoard /\ [][NextBoard]_vars

(***************************************************************************)
(* One installation's round, key by key: the keyboard, the saved game      *)
(* state and page loads, and startNewGame with the AI word picker behind   *)
(* the worker's proxy.  Sync is off on this installation.                  *)
(***************************************************************************)
RoundDevice == "A"

\* games the log holds when the exploration starts
PastGames == 5

\* presses of ENTER in one behaviour
MaxSubmits == 3

\* page loads in one behaviour
MaxReloads == 1

\* new rounds started in one behaviour
MaxStarts == 2

CLOUDFLARE_WORKER_URL == "https://wordwise-proxy.zsmaguc.workers.dev"

\* Array(MAX_ATTEMPTS).fill('')
EmptyGuesses == [i \in 1..MAX_ATTEMPTS |-> <<>>]

UpperCaseLetters ==
  {"A", "B", "C", "D", "E", "F", "G", "H", "I", "J", "K", "L", "M", "N", "O", "P", "Q", "R",
   "S", "T", "U", "V", "W", "X", "Y", "Z"}

\* the texts the player types, letter by letter
TypedGuesses == VALID_WORDS \cup {"CRANK"}

IsPrefix(p, s) == Len(p) <= Len(s) /\ SubSeq(s, 1, Len(p)) = p

\* a variant: every text is taken for a word
IsValidWord_any(chars) == TRUE

\* VALID_WORDS.has(currentGuess)
IsValidWord(chars) == \E word \in VALID_WORDS : Letters(word) = chars

\* the effect that saves the game state after a render: saveGameState unless the round
\* is untouched; the stored object has no wordSource
saveGameStateEffect(word, rows, typed, row, status, stored) ==
  IF status # "playing" \/ row > 0 \/ (\E i \in 1..Len(rows) : rows[i] # <<>>) \/ typed # <<>>
    THEN [targetWord |-> word, guesses |-> rows, currentGuess |-> typed, currentRow |-> row,
          gameStatus |-> status]
    ELSE stored

\* the log of an installation that has played PastGames games and cleared its used
\* words since
PastHistory ==
  [i \in 1..PastGames |->
     [id |-> i, w |-> WordList[((i - 1) % NumWords) + 1], r |-> -1, src |-> "list", t |-> i]]

PastStats == StatsAfter([i \in 1..PastGames |-> <<"lost", MAX_ATTEMPTS, "list">>])

\* the installation opens with a new game or with the saved state of a game that was
\* left before its last guess; its log is empty or holds PastGames games; it has an API
\* key or none
InitRound ==
  /\ \E past \in BOOLEAN :
       /\ stats = [d \in Devices |-> IF past /\ d = RoundDevice THEN PastStats ELSE getInitialStats]
       /\ gameHistory = [d \in Devices |-> IF past /\ d = RoundDevice THEN PastHistory ELSE <<>>]
       /\ nextId = IF past THEN PastGames + 1 ELSE 1
       /\ clock = [d \in Devices |-> IF past /\ d = RoundDevice THEN PastGames ELSE 0]
  /\ usedWords = [d \in Devices |-> <<>>]
  /\ settings = [d \in Devices |-> DefaultSettings]
  /\ apiKey \in {f \in [Devices -> {StoredKey, NoKey}] : f["B"] = NoKey}
  /\ pendingUnderstanding = [d \in Devices |-> NoRating]
  /\ overlap = MaxInFlight
  /\ targetWord = [d \in Devices |-> WordList[1]]
  /\ wordSource = [d \in Devices |-> "list"]
  /\ currentRow \in {f \in [Devices -> {0, MAX_ATTEMPTS - 1}] : f["B"] = 0}
  /\ gameStatus = [d \in Devices |-> "playing"]
  /\ showFeedbackModal = [d \in Devices |-> FALSE]
  /\ showVictoryDialog = [d \in Devices |-> FALSE]
  /\ syncCode = [d \in Devices |-> NoCode]
  /\ syncEnabled = [d \in Devices |-> FALSE]
  /\ syncVersion = [d \in Devices |-> 0]
  /\ syncStatus = [d \in Devices |-> "idle"]
  /\ syncError = [d \in Devices |-> NoError]
  /\ timers = [d \in Devices |-> 0]
  /\ calls = [d \in Devices |-> <<>>]
  /\ store = [c \in SyncCodes |-> Nothing]
  /\ workerNow = 1
  /\ rounds = 0
  /\ syncs = 0
  /\ manual = 0
  /\ enters = 0
  /\ failures = 0
  /\ clears = 0
  /\ wrong = 0
  /\ timeouts = 0
  /\ saves = [d \in Devices |-> 0]
  /\ unsaved = [d \in Devices |-> 0]
  /\ lastCycle = [d \in Devices |-> Nothing]
  /\ lastGame = [d \in Devices |-> Nothing]
  /\ lastMerge = [d \in Devices |-> Nothing]
  /\ lastResp = [d \in Devices |-> Nothing]
  /\ accepted = [c \in SyncCodes |-> <<>>]
  /\ InitMergeIdle
  /\ InitStatsIdle
  /\ InitBoardIdle
  /\ guesses = [i \in 1..MAX_ATTEMPTS |->
                  IF i <= currentRow[RoundDevice] THEN Letters("AAHED") ELSE <<>>]
  /\ currentGuess = <<>>
  /\ errorMessage = ""
  /\ isLoadingWord = FALSE
  /\ gameState = saveGameStateEffect(targetWord[RoundDevice], guesses, currentGuess,
                                     currentRow[RoundDevice], "playing", Nothing)
  /\ aiCall = Nothing
  /\ selectedWith = "list"
  /\ lastPick = Nothing
  /\ reloads = 0
  /\ submits = 0

\* what no step of the round writes
RoundRest ==
  UNCHANGED <<settings, apiKey, overlap, syncCode, syncEnabled, syncVersion, timers, store,
              workerNow, manual, enters, failures, clears, wrong, timeouts, unsaved, lastCycle,
              lastMerge, lastResp, accepted, mLocal, mRemote, mOut, mNow, sIn, sArgs, sInAfter,
              sOut, bTarget, bGuess, bRow>>

\* what saveGameToHistory writes
RoundRecord ==
  <<stats, gameHistory, usedWords, calls, syncStatus, syncError, lastGame, syncs, saves,
    nextId, clock>>

\* handleKeyDown / handleKeyClick with a letter
handleKey(key) ==
  /\ gameStatus[RoundDevice] = "playing"
  /\ NoModal(RoundDevice)
  /\ Len(currentGuess) < WORD_LENGTH
  /\ \E text \in TypedGuesses : IsPrefix(Append(currentGuess, key), Letters(text))
  /\ currentGuess' = Append(currentGuess, key)
  /\ gameState' = saveGameStateEffect(targetWord[RoundDevice], guesses, currentGuess',
                                      currentRow[RoundDevice], gameStatus[RoundDevice], gameState)
  /\ UNCHANGED <<RoundRecord, pendingUnderstanding, targetWord, wordSource, currentRow, gameStatus,
                showFeedbackModal, showVictoryDialog, rounds, guesses, errorMessage,
                isLoadingWord, aiCall, selectedWith, lastPick, reloads, submits>>
  /\ RoundRest

\* handleKeyDown / handleKeyClick with BACKSPACE -> handleBackspace
handleBackspace ==
  /\ gameStatus[RoundDevice] = "playing"
  /\ NoModal(RoundDevice)
  /\ currentGuess # <<>>
  /\ currentGuess' = SubSeq(currentGuess, 1, Len(currentGuess) - 1)
  /\ gameState' = saveGameStateEffect(targetWord[RoundDevice], guesses, currentGuess',
                                      currentRow[RoundDevice], gameStatus[RoundDevice], gameState)
  /\ UNCHANGED <<RoundRecord, pendingUnderstanding, targetWord, wordSource, currentRow, gameStatus,
                showFeedbackModal, showVictoryDialog, rounds, guesses, errorMessage,
                isLoadingWord, aiCall, selectedWith, lastPick, reloads, submits>>
  /\ RoundRest

\* handleKeyDown / handleKeyClick with ENTER -> handleSubmit with what has been typed;
\* the gameStatus effect then opens the result dialog and the save effect stores the
\* game state
handleEnter ==
  /\ gameStatus[RoundDevice] = "playing"
  /\ NoModal(RoundDevice)
  /\ submits < MaxSubmits
  /\ submits' = submits + 1
  /\ IF Len(currentGuess) # WORD_LENGTH \/ currentRow[RoundDevice] >= MAX_ATTEMPTS
       THEN UNCHANGED <<guesses, currentGuess, currentRow, gameStatus, showFeedbackModal,
                        errorMessage, gameState>>
     ELSE IF ~IsValidWord(currentGuess)
       THEN /\ errorMessage' = "Not in word list"
            /\ UNCHANGED <<guesses, currentGuess, currentRow, gameStatus, showFeedbackModal,
                           gameState>>
     ELSE LET newGuesses == [guesses EXCEPT ![currentRow[RoundDevice] + 1] = currentGuess]
              ended == currentGuess = Letters(targetWord[RoundDevice])
                         \/ currentRow[RoundDevice] = MAX_ATTEMPTS - 1
          IN /\ guesses' = newGuesses
             /\ gameStatus' = [gameStatus EXCEPT ![RoundDevice] =
                                 IF currentGuess = Letters(targetWord[RoundDevice]) THEN "won"
                                 ELSE IF currentRow[RoundDevice] = MAX_ATTEMPTS - 1 THEN "lost"
                                 ELSE @]
             /\ currentRow' = [currentRow EXCEPT ![RoundDevice] = IF ended THEN @ ELSE @ + 1]
             /\ currentGuess' = IF ended THEN currentGuess ELSE <<>>
             /\ showFeedbackModal' = [showFeedbackModal EXCEPT ![RoundDevice] = ended]
             /\ gameState' = saveGameStateEffect(targetWord[RoundDevice], guesses', currentGuess',
                                                 currentRow'[RoundDevice],
                                                 gameStatus'[RoundDevice], gameState)
             /\ UNCHANGED errorMessage
  /\ UNCHANGED <<RoundRecord, pendingUnderstanding, targetWord, wordSource, showVictoryDialog,
                rounds, isLoadingWord, aiCall, selectedWith, lastPick, reloads>>
  /\ RoundRest

\* showError's timer: setErrorMessage('')
ErrorTimeout ==
  /\ errorMessage # ""
  /\ errorMessage' = ""
  /\ UNCHANGED <<RoundRecord, pendingUnderstanding, targetWord, wordSource, currentRow, gameStatus,
                showFeedbackModal, showVictoryDialog, rounds, guesses, currentGuess,
                isLoadingWord, gameState, aiCall, selectedWith, lastPick, reloads, submits>>
  /\ RoundRest

\* Date.now() of the installation
RoundNow == clock[RoundDevice] + 1

\* the Close button of the result dialog
CloseResult ==
  /\ showFeedbackModal[RoundDevice]
  /\ Commit(RoundDevice, SaveIfNeeded(RoundDevice, RoundNow))
  /\ showFeedbackModal' = [showFeedbackModal EXCEPT ![RoundDevice] = FALSE]
  /\ UNCHANGED <<pendingUnderstanding, targetWord, wordSource, currentRow, gameStatus,
                showVictoryDialog, rounds, guesses, currentGuess, errorMessage, isLoadingWord,
                gameState, aiCall, selectedWith, lastPick, reloads, submits>>
  /\ RoundRest

\* startGameWithWord(word, source) after the record r of the handler so far
StartRound(word, source, r) ==
  /\ Commit(RoundDevice,
            [r EXCEPT !.saves = 0,
                      !.gameHistory = startGameWithWord(@, pendingUnderstanding[RoundDevice])])
  /\ pendingUnderstanding' = [pendingUnderstanding EXCEPT ![RoundDevice] = NoRating]
  /\ targetWord' = [targetWord EXCEPT ![RoundDevice] = word]
  /\ wordSource' = [wordSource EXCEPT ![RoundDevice] = source]
  /\ guesses' = EmptyGuesses
  /\ currentGuess' = <<>>
  /\ currentRow' = [currentRow EXCEPT ![RoundDevice] = 0]
  /\ gameStatus' = [gameStatus EXCEPT ![RoundDevice] = "playing"]
  /\ errorMessage' = ""
  /\ gameState' = Nothing
  /\ selectedWith' = source
  /\ rounds' = rounds + 1
  /\ UNCHANGED <<showFeedbackModal, showVictoryDialog>>

\* startNewGame's fallback: a random word of availableFromList, or the victory dialog
StartFromList(availableFromList, r) ==
  IF availableFromList = {}
    THEN /\ Commit(RoundDevice, r)
         /\ showVictoryDialog' = [showVictoryDialog EXCEPT ![RoundDevice] = TRUE]
         /\ UNCHANGED <<pendingUnderstanding, targetWord, wordSource, guesses, currentGuess,
                        currentRow, gameStatus, errorMessage, gameState, selectedWith, rounds,
                        showFeedbackModal>>
    ELSE \E word \in availableFromList : StartRound(word, "list", r)

\* callClaudeAPI: the headers of the request
callClaudeAPIHeaders(url, key) ==
  IF url = CLOUDFLARE_WORKER_URL
    THEN [k \in {"Content-Type", "X-API-Key"} |->
            IF k = "X-API-Key" THEN key ELSE "application/json"]
    ELSE [k \in {"Content-Type", "x-api-key", "anthropic-version"} |->
            IF k = "x-api-key" THEN key
            ELSE IF k = "anthropic-version" THEN "2023-06-01" ELSE "application/json"]

\* the Play Again button: resetGame -> startNewGame up to its first await (or to its end
\* when the word comes from the list).  startNewGame reads the usedWords and the
\* gameHistory of the render the click happened in.
resetGameRound ==
  /\ gameStatus[RoundDevice] # "playing"
  /\ NoModal(RoundDevice)
  /\ ~isLoadingWord
  /\ rounds < MaxStarts
  /\ LET r == SaveIfNeeded(RoundDevice, RoundNow)
         availableFromList == ANSWER_WORDS \ SeqToSet(usedWords[RoundDevice])
     IN IF ~settings[RoundDevice].aiEnabled \/ Len(gameHistory[RoundDevice]) < 5
             \/ apiKey[RoundDevice] = NoKey
          THEN /\ StartFromList(availableFromList, r)
               /\ UNCHANGED <<isLoadingWord, aiCall>>
          ELSE /\ Commit(RoundDevice, r)
               /\ isLoadingWord' = TRUE
               /\ aiCall' = [url |-> CLOUDFLARE_WORKER_URL,
                             headers |-> callClaudeAPIHeaders(CLOUDFLARE_WORKER_URL,
                                                              apiKey[RoundDevice]),
                             usedWords |-> SeqToSet(usedWords[RoundDevice])]
               /\ UNCHANGED <<pendingUnderstanding, targetWord, wordSource, guesses, currentGuess,
                              currentRow, gameStatus, errorMessage, gameState, selectedWith,
                              rounds, showFeedbackModal, showVictoryDialog>>
  /\ UNCHANGED <<lastPick, reloads, submits>>
  /\ RoundRest

\* what the word picker may answer: a text, an error status, or no answer at all
AiTexts == ANSWER_WORDS \cup {"GHOST", " crane ", "CRANES", "BR1CK", ""}

AiAnswers ==
  {[ok |-> TRUE, status |-> 200, text |-> text] : text \in AiTexts}
    \cup {[ok |-> FALSE, status |-> status, text |-> ""] : status \in {0, 401, 500}}

\* the worker's proxy: without an X-API-Key header it answers 401, otherwise it forwards
\* the request to the API with the key and passes the answer on
ProxyResponse(request, answer) ==
  IF ~Has(request.headers, "X-API-Key") \/ request.headers["X-API-Key"] = NoKey
    THEN [ok |-> FALSE, status |-> 401, text |-> ""]
    ELSE answer

\* callClaudeAPI: data.content[0].text.trim().toUpperCase()
WordOf(response) == Text(ToUpperCase(Trim(Letters(response.text))))

\* startNewGame: the word passes the checks (usedWords as startNewGame read it)
WordAccepted(response, used) ==
  /\ response.ok
  /\ WordOf(response) # ""
  /\ Len(Letters(WordOf(response))) = 5
  /\ \A i \in 1..Len(Letters(WordOf(response))) : Letters(WordOf(response))[i] \in UpperCaseLetters
  /\ WordOf(response) \notin used

\* startNewGame resumes with the word picker's answer
startNewGameResumes(answer) ==
  /\ aiCall # Nothing
  /\ LET response == ProxyResponse(aiCall, answer)
     IN /\ lastPick' = response
        /\ IF WordAccepted(response, aiCall.usedWords)
             THEN StartRound(WordOf(response), "ai", Untouched(RoundDevice))
             ELSE StartFromList(ANSWER_WORDS \ aiCall.usedWords, Untouched(RoundDevice))
  /\ aiCall' = Nothing
  /\ isLoadingWord' = FALSE
  /\ UNCHANGED <<reloads, submits>>
  /\ RoundRest

\* the page is loaded again: initializeGameState restores the saved game state, or opens
\* a new game with a random word (while the answer list has an unused word); a suspended
\* startNewGame is gone with the old page
Reload ==
  /\ reloads < MaxReloads
  /\ reloads' = reloads + 1
  /\ IF gameState # Nothing
       THEN /\ targetWord' = [targetWord EXCEPT ![RoundDevice] = gameState.targetWord]
            /\ guesses' = gameState.guesses
            /\ currentGuess' = gameState.currentGuess
            /\ currentRow' = [currentRow EXCEPT ![RoundDevice] = gameState.currentRow]
            /\ gameStatus' = [gameStatus EXCEPT ![RoundDevice] = gameState.gameStatus]
            /\ UNCHANGED <<selectedWith, saves>>
       ELSE /\ \E newWord \in ANSWER_WORDS \ SeqToSet(usedWords[RoundDevice]) :
                 targetWord' = [targetWord EXCEPT ![RoundDevice] = newWord]
            /\ guesses' = EmptyGuesses
            /\ currentGuess' = <<>>
            /\ currentRow' = [currentRow EXCEPT ![RoundDevice] = 0]
            /\ gameStatus' = [gameStatus EXCEPT ![RoundDevice] = "playing"]
            /\ selectedWith' = "list"
            /\ saves' = [saves EXCEPT ![RoundDevice] = 0]
  /\ wordSource' = [wordSource EXCEPT ![RoundDevice] = "list"]
  /\ showFeedbackModal' = [showFeedbackModal EXCEPT ![RoundDevice] = FALSE]
  /\ showVictoryDialog' = [showVictoryDialog EXCEPT ![RoundDevice] = FALSE]
  /\ errorMessage' = ""
  /\ isLoadingWord' = FALSE
  /\ aiCall' = Nothing
  /\ UNCHANGED <<stats, gameHistory, usedWords, calls, syncStatus, syncError, lastGame, syncs,
                nextId, clock, pendingUnderstanding, rounds, gameState, lastPick, submits>>
  /\ RoundRest

NextRound ==
  \/ \E key \in UpperCaseLetters : handleKey(key)
  \/ handleBackspace
  \/ handleEnter
  \/ ErrorTimeout
  \/ CloseResult
  \/ resetGameRound
  \/ \E answer \in AiAnswers : startNewGameResumes(answer)
  \/ Reload

SpecRound == InitRound /\ [][NextRound]_vars

(***************************************************************************)
(* Two connected installations that have stopped playing and rating: both  *)
(* hold the game the remote record holds, each may have attached its own   *)
(* understanding rating to it when it started its current round            *)
(* (startGameWithWord starts no sync), and they press Sync Now in turn,    *)
(* one cycle at a time.                                                    *)
(***************************************************************************)
\* the id of the game both installations hold (an id minted before the behaviours start)
SharedId == 100

SharedGame == [id |-> SharedId, w |-> WordList[1], r |-> 3, src |-> "list", t |-> 1]

SharedStats == StatsAfter(<<<<"won", 3, "list">>>>)

\* the record the worker holds: written by the installation that played the game
SharedRecord ==
  MintedRecord([data |-> Snapshot(SharedStats, <<SharedGame>>, <<WordList[1]>>,
                                  DefaultSettings)], 1)

\* the game as an installation holds it, with the rating it attached (if any)
HeldGame(rating) == IF rating = NoRating THEN SharedGame ELSE RatedWith(SharedGame, rating)

InitConverge ==
  /\ stats = [d \in Devices |-> SharedStats]
  /\ \E ra \in Ratings \cup {NoRating}, rb \in Ratings \cup {NoRating} :
       gameHistory = [d \in Devices |-> <<HeldGame(IF d = "A" THEN ra ELSE rb)>>]
  /\ usedWords = [d \in Devices |-> <<WordList[1]>>]
  /\ settings = [d \in Devices |-> DefaultSettings]
  /\ apiKey = [d \in Devices |-> IF d = "A" THEN StoredKey ELSE NoKey]
  /\ pendingUnderstanding = [d \in Devices |-> NoRating]
  /\ overlap = MaxInFlight
  /\ targetWord = [d \in Devices |-> WordList[2]]
  /\ wordSource = [d \in Devices |-> "list"]
  /\ currentRow = [d \in Devices |-> 0]
  /\ gameStatus = [d \in Devices |-> "playing"]
  /\ showFeedbackModal = [d \in Devices |-> FALSE]
  /\ showVictoryDialog = [d \in Devices |-> FALSE]
  /\ syncCode = [d \in Devices |-> CodeList[1]]
  /\ syncEnabled = [d \in Devices |-> TRUE]
  /\ syncVersion = [d \in Devices |-> 1]
  /\ syncStatus \in [Devices -> {"idle", "success"}]
  /\ syncError = [d \in Devices |-> NoError]
  /\ timers = [d \in Devices |-> IF syncStatus[d] = "success" THEN 1 ELSE 0]
  /\ calls = [d \in Devices |-> <<>>]
  /\ store = [c \in SyncCodes |-> IF c = CodeList[1] THEN SharedRecord ELSE Nothing]
  /\ workerNow = 2
  /\ clock = [d \in Devices |-> 1]
  /\ nextId = 1
  /\ rounds = 0
  /\ syncs = 0
  /\ manual = 0
  /\ enters = 1
  /\ failures = 0
  /\ clears = 0
  /\ wrong = 0
  /\ timeouts = 0
  /\ saves = [d \in Devices |-> 0]
  /\ unsaved = [d \in Devices |-> 0]
  /\ lastCycle = [d \in Devices |-> Nothing]
  /\ lastGame = [d \in Devices |-> Nothing]
  /\ lastMerge = [d \in Devices |-> Nothing]
  /\ lastResp = [d \in Devices |-> Nothing]
  /\ accepted = [c \in SyncCodes |-> <<>>]
  /\ InitMergeIdle
  /\ InitStatsIdle
  /\ InitBoardIdle
  /\ InitRoundIdle

\* the device whose cycle was the last to start
LastToSync(d) == lastCycle[d] # Nothing /\ lastCycle[d].no = syncs

\* Sync Now, pressed when no call is suspended, by the device that did not sync last
SyncInTurn(d) ==
  /\ \A e \in Devices : calls[e] = <<>>
  /\ ~LastToSync(d)
  /\ handleSyncNow(d)

NextConverge ==
  \/ \E d \in Devices : SyncInTurn(d)
  \/ \E s \in Suspended : WorkerPutRead(s[1], s[2])
  \/ \E s \in Suspended : SyncNowGotRemote(s[1], s[2])
  \/ \E s \in Suspended : SyncNowGotFirstPut(s[1], s[2])

SpecConverge == InitConverge /\ [][NextConverge]_vars

(***************************************************************************)
(* The claims                                                              *)
(***************************************************************************)
\* C1: a handleSyncNow cycle sends at most two PUTs; one that met a 409 on its first
\* PUT re-merged once and sent one retry PUT at the newer version + 1; one whose
\* retry met a 409 as well ended with status 'error', not 'success'.
C1_SecondConflictIsAnError ==
  \A d \in Devices :
    lastCycle[d] # Nothing =>
      LET c == lastCycle[d]
      IN /\ Len(c.sent) <= 2
         /\ Len(c.conflicts) >= 1 =>
              (c.remerges = 1 /\ Len(c.sent) = 2 /\ c.sent[2] = c.conflicts[1] + 1)
         /\ Len(c.conflicts) = 2 => c.status = "error"

\* C2: when the last cycles of two devices on one sync code overlapped and both ended
\* with 'success' (and nobody cleared the used words), the remote record holds every
\* used word and every history id either device held when its cycle started.
C2_NoWriteIsLost ==
  \A a, b \in Devices :
    LET ca == lastCycle[a]
        cb == lastCycle[b]
    IN (/\ a # b /\ ca # Nothing /\ cb # Nothing
        /\ calls[a] = <<>> /\ calls[b] = <<>> /\ clears = 0
        /\ ca.code = cb.code /\ cb.no \in ca.with
        /\ ca.status = "success" /\ cb.status = "success")
       => /\ ca.heldWords \cup cb.heldWords \subseteq SeqToSet(store[ca.code].data.usedWords)
          /\ ca.heldIds \cup cb.heldIds \subseteq HistoryIds(store[ca.code].data.gameHistory)

\* C3: a minted record has version 1, and the versions of the PUTs the worker
\* accepted for a code are strictly increasing from there: no version is accepted
\* twice.
C3_AcceptedVersionsIncrease ==
  \A code \in SyncCodes :
    /\ (store[code] # Nothing /\ accepted[code] = <<>>) => store[code].version = 1
    /\ \A i \in 1..Len(accepted[code]) :
         accepted[code][i] > (IF i = 1 THEN 1 ELSE accepted[code][i - 1])

C5_RecordedExactlyOnce == \A d \in Devices : saves[d] <= 1 /\ unsaved[d] = 0

\* C6: in the step that issues the first request (the GET) of the sync a finished game
\* triggers, storage holds the game's history entry, its word among the used words
\* and the statistics counting it; and a step in which such a sync fails leaves
\* statistics, history, used words and the round as they are.
C6_LocalRecordFirst ==
  [][\A d \in Devices :
       /\ \A j \in 1..Len(calls'[d]) :
            LET c == calls'[d][j]
            IN (/\ c.trigger # 0
                /\ ~\E i \in 1..Len(calls[d]) : calls[d][i].no = c.no)
               => /\ c.pc = "GET_sent"
                  /\ c.sent = <<>>
                  /\ c.trigger \in HistoryIds(gameHistory'[d])
                  /\ targetWord[d] \in SeqToSet(usedWords'[d])
                  /\ stats'[d].played = stats[d].played + 1
       /\ \A i \in 1..Len(calls[d]) :
            LET c == calls[d][i]
            IN (/\ c.trigger # 0
                /\ lastCycle'[d] # lastCycle[d]
                /\ lastCycle'[d].no = c.no
                /\ lastCycle'[d].status = "error")
               => /\ stats'[d] = stats[d]
                  /\ gameHistory'[d] = gameHistory[d]
                  /\ usedWords'[d] = usedWords[d]
                  /\ targetWord'[d] = targetWord[d]
                  /\ gameStatus'[d] = gameStatus[d]
                  /\ currentRow'[d] = currentRow[d]
                  /\ calls'[d] = RemoveAt(calls[d], i)]_vars

\* C6, its case: the sync a game triggered failed, the game is on record, and its
\* device has gone on to a new round.
C6_Witness ==
  \E d \in Devices :
    /\ lastCycle[d] # Nothing
    /\ lastCycle[d].trigger # 0
    /\ lastCycle[d].status = "error"
    /\ lastCycle[d].trigger \in HistoryIds(gameHistory[d])
    /\ stats[d].played >= 1
    /\ gameStatus[d] = "playing"
    /\ rounds >= 1

\* C7: every merge a device ran took currentStreak from the side whose most recent
\* history entry, by timestamp, is strictly more recent (local unless the remote's is);
\* from the only side with a history; from local when neither has one.
C7_StreakOfMostRecentSide ==
  \A d \in Devices :
    lastMerge[d] # Nothing =>
      LET m == lastMerge[d]
          lh == m.local.gameHistory
          rh == m.remote.gameHistory
          MostRecent(h) == CHOOSE t \in {NumOr0(h[i], "t") : i \in 1..Len(h)} :
                             \A i \in 1..Len(h) : t >= NumOr0(h[i], "t")
          fromRemote == IF lh # <<>> /\ rh # <<>> THEN MostRecent(rh) > MostRecent(lh)
                        ELSE rh # <<>>
      IN m.out.stats.currentStreak =
           (IF fromRemote THEN m.remote.stats.currentStreak ELSE m.local.stats.currentStreak)

C9_CountersAreMax ==
  mOut # Nothing =>
    /\ \A f \in {"played", "wins", "maxStreak", "aiWords", "listWords"} :
         LET l == IF f \in DOMAIN mLocal.stats THEN mLocal.stats[f] ELSE 0
             r == IF f \in DOMAIN mRemote.stats THEN mRemote.stats[f] ELSE 0
         IN /\ mOut.stats[f] >= l
            /\ mOut.stats[f] >= r
            /\ mOut.stats[f] \in {l, r}
    /\ \A i \in 1..MAX_ATTEMPTS :
         LET l == mLocal.stats.guessDistribution[i]
             r == mRemote.stats.guessDistribution[i]
         IN /\ mOut.stats.guessDistribution[i] >= l
            /\ mOut.stats.guessDistribution[i] >= r
            /\ mOut.stats.guessDistribution[i] \in {l, r}

\* C9, its case: a merge where local leads in one counter and remote in another,
\* one side lacks aiWords, and each side leads in one entry of guessDistribution.
C9_Witness ==
  /\ mOut # Nothing
  /\ mLocal.stats.played > mRemote.stats.played
  /\ "aiWords" \notin DOMAIN mLocal.stats
  /\ "aiWords" \in DOMAIN mRemote.stats /\ mRemote.stats.aiWords > 0
  /\ \E i, j \in 1..MAX_ATTEMPTS :
       /\ mLocal.stats.guessDistribution[i] > mRemote.stats.guessDistribution[i]
       /\ mLocal.stats.guessDistribution[j] < mRemote.stats.guessDistribution[j]
  /\ mOut.stats.played = mLocal.stats.played
  /\ mOut.stats.aiWords = mRemote.stats.aiWords

\* C10: every id present in the local or the remote history appears exactly once in
\* the merged history (the 20-entry cap not reached), as one of the copies the sides
\* hold, and no copy of that id has a greater timestamp than the one kept.
C10_UnionById ==
  mOut # Nothing =>
    LET lh == mLocal.gameHistory
        rh == mRemote.gameHistory
        oh == mOut.gameHistory
        Copies(h, id) == {h[i] : i \in {j \in 1..Len(h) : Has(h[j], "id") /\ h[j].id = id}}
    IN \A id \in HistoryIds(lh) \cup HistoryIds(rh) :
         /\ Cardinality({i \in 1..Len(oh) : Has(oh[i], "id") /\ oh[i].id = id}) = 1
         /\ \A kept \in Copies(oh, id) :
              /\ kept \in Copies(lh, id) \cup Copies(rh, id)
              /\ \A copy \in Copies(lh, id) \cup Copies(rh, id) : kept.t >= copy.t

\* C10, its case: both sides hold two ids, the local copy of one and the remote copy
\* of the other being the newer, and the merged history keeps the newer of each.
C10_Witness ==
  /\ mOut # Nothing
  /\ \E i, j, k, l \in 1..MaxHistLen :
       /\ i <= Len(mLocal.gameHistory) /\ j <= Len(mRemote.gameHistory)
       /\ k <= Len(mLocal.gameHistory) /\ l <= Len(mRemote.gameHistory)
       /\ Has(mLocal.gameHistory[i], "id") /\ Has(mRemote.gameHistory[j], "id")
       /\ Has(mLocal.gameHistory[k], "id") /\ Has(mRemote.gameHistory[l], "id")
       /\ mLocal.gameHistory[i].id = mRemote.gameHistory[j].id
       /\ mLocal.gameHistory[i].t > mRemote.gameHistory[j].t
       /\ mLocal.gameHistory[k].id = mRemote.gameHistory[l].id
       /\ mLocal.gameHistory[k].t < mRemote.gameHistory[l].t
       /\ mLocal.gameHistory[i] \in SeqToSet(mOut.gameHistory)
       /\ mRemote.gameHistory[l] \in SeqToSet(mOut.gameHistory)
  /\ Len(mOut.gameHistory) = 2

\* C11: the merged history (the cap not reached) holds one entry with a fresh id for
\* every entry without id of the local and of the remote history, none merged with
\* another; each has the merge time as timestamp and the word, result and source of
\* an entry without id.
C11_LegacyEntriesBackfilled ==
  mOut # Nothing =>
    LET oh == mOut.gameHistory
        given == HistoryIds(mLocal.gameHistory) \cup HistoryIds(mRemote.gameHistory)
        legacy == {g \in SeqToSet(mLocal.gameHistory) \cup SeqToSet(mRemote.gameHistory) :
                     ~Has(g, "id")}
        fresh == {i \in 1..Len(oh) : oh[i].id \notin given}
    IN /\ \A i \in 1..Len(oh) : Has(oh[i], "id") /\ Has(oh[i], "t")
       /\ Cardinality(fresh) = LegacyCount(mLocal) + LegacyCount(mRemote)
       /\ \A i, j \in fresh : i # j => oh[i].id # oh[j].id
       /\ \A i \in fresh :
            /\ oh[i].t = mNow
            /\ \E g \in legacy : oh[i].w = g.w /\ oh[i].r = g.r /\ oh[i].src = g.src

\* C11, its case: both sides hold an entry without id, equal in word, result and
\* source, next to an entry with an id, and the merged history holds four entries.
C11_Witness ==
  /\ mOut # Nothing
  /\ LegacyCount(mLocal) = 1 /\ LegacyCount(mRemote) = 1
  /\ Len(mLocal.gameHistory) = 2 /\ Len(mRemote.gameHistory) = 2
  /\ HistoryIds(mLocal.gameHistory) # HistoryIds(mRemote.gameHistory)
  /\ Len(mOut.gameHistory) = 4
  /\ Cardinality(HistoryIds(mOut.gameHistory)) = 4

\* C12: the merged history is sorted ascending by timestamp and has at most
\* MAX_HISTORY_SIZE entries: all entries of the union when they are no more than
\* that, else MAX_HISTORY_SIZE of them, none with a smaller timestamp than an entry
\* left out.
C12_SortedAndCapped ==
  mOut # Nothing =>
    LET oh == mOut.gameHistory
        all == SeqToSet(AllGames(mLocal, mRemote, FreshIdWide, mNow))
        kept == SeqToSet(oh)
    IN /\ \A i, j \in 1..Len(oh) : i < j => oh[i].t <= oh[j].t
       /\ Len(oh) <= MAX_HISTORY_SIZE
       /\ kept \subseteq all
       /\ Cardinality(kept) = Len(oh)
       /\ Len(oh) = (IF Cardinality(all) > MAX_HISTORY_SIZE THEN MAX_HISTORY_SIZE
                      ELSE Cardinality(all))
       /\ \A g \in all \ kept : \A k \in kept : g.t <= k.t

\* C12, its case: two full histories with different ids, one of them stored out of
\* order, and a merged history that kept 20 of the 40 entries.
C12_Witness ==
  /\ mOut # Nothing
  /\ Len(mLocal.gameHistory) = MAX_HISTORY_SIZE
  /\ Len(mRemote.gameHistory) = MAX_HISTORY_SIZE
  /\ LegacyCount(mLocal) = 0 /\ LegacyCount(mRemote) = 0
  /\ HistoryIds(mLocal.gameHistory) \cap HistoryIds(mRemote.gameHistory) = {}
  /\ \E i \in 1..(MAX_HISTORY_SIZE - 1) :
       mLocal.gameHistory[i].t > mLocal.gameHistory[i + 1].t
  /\ \E i, j \in 1..MAX_HISTORY_SIZE : mRemote.gameHistory[i].t # mRemote.gameHistory[j].t
  /\ Len(mOut.gameHistory) = MAX_HISTORY_SIZE
  /\ \E i, j \in 1..MAX_HISTORY_SIZE : mOut.gameHistory[i].t < mOut.gameHistory[j].t

\* C13: the merged usedWords holds every word of the local and of the remote
\* usedWords, no other word, and no word twice.
C13_UsedWordsUnion ==
  mOut # Nothing =>
    /\ SeqToSet(mOut.usedWords) = SeqToSet(mLocal.usedWords) \cup SeqToSet(mRemote.usedWords)
    /\ Cardinality(SeqToSet(mOut.usedWords)) = Len(mOut.usedWords)

\* C13, its case: the sides share a word and each has one the other lacks.
C13_Witness ==
  /\ mOut # Nothing
  /\ SeqToSet(mLocal.usedWords) \cap SeqToSet(mRemote.usedWords) # {}
  /\ SeqToSet(mLocal.usedWords) \ SeqToSet(mRemote.usedWords) # {}
  /\ SeqToSet(mRemote.usedWords) \ SeqToSet(mLocal.usedWords) # {}
  /\ Len(mOut.usedWords) = 3

\* C14: each merged setting is local's value when local defines it (false included),
\* else remote's value when remote defines it (false included), else the default:
\* true for aiEnabled, false for the others.
C14_SettingsPrecedence ==
  mOut # Nothing =>
    \A key \in SettingKeys :
      LET Defines(data) == Has(data, "settings") /\ Has(data.settings, key)
      IN mOut.settings[key] =
           (IF Defines(mLocal) THEN mLocal.settings[key]
            ELSE IF Defines(mRemote) THEN mRemote.settings[key]
            ELSE key = "aiEnabled")

\* where a snapshot could carry the API key: as a field of its own or among its settings
CarriesKey(data) ==
  \/ Has(data, "apiKey")
  \/ (Has(data, "settings") /\ Has(data.settings, "apiKey"))

\* C15: the API key never enters the sync path: the settings intelligentMerge returns
\* have no apiKey even when the settings it was given have one, the snapshot
\* prepareDataForSync builds has none, and no body of a POST or PUT on the wire, no
\* record the worker read and no record in the KV store holds one.
C15_APIKeyNeverSynced ==
  /\ mOut # Nothing => ~CarriesKey(mOut)
  /\ \A d \in Devices :
       /\ ~CarriesKey(prepareDataForSync(d))
       /\ \A i \in 1..Len(calls[d]) :
            /\ calls[d][i].body # Nothing => ~CarriesKey(calls[d][i].body.data)
            /\ calls[d][i].read # Nothing => ~CarriesKey(calls[d][i].read.data)
  /\ \A c \in SyncCodes : store[c] # Nothing => ~CarriesKey(store[c].data)

\* both sides of a merge carried the API key among their settings
C15_Witness ==
  /\ mOut # Nothing
  /\ CarriesKey(mLocal)
  /\ CarriesKey(mRemote)

\* a normalized snapshot: every history entry has an id and a timestamp, the history
\* is sorted ascending and has at most MAX_HISTORY_SIZE entries, usedWords has no
\* word twice, and all four settings are defined.  It is a snapshot of the program:
\* its settings hold no API key.
Normalized(data) ==
  LET h == HistoryOf(data)
      w == UsedWordsOf(data)
  IN /\ \A i \in 1..Len(h) : Has(h[i], "id") /\ Has(h[i], "t")
     /\ \A i, j \in 1..Len(h) : i < j => h[i].t <= h[j].t
     /\ Len(h) <= MAX_HISTORY_SIZE
     /\ Cardinality(SeqToSet(w)) = Len(w)
     /\ Has(data, "settings")
     /\ SettingKeys \subseteq DOMAIN data.settings
     /\ ~CarriesKey(data)

\* the merge of a normalized snapshot with itself
SelfMerge == mOut # Nothing /\ mRemote = mLocal /\ Normalized(mLocal)

SameAsLocal ==
  /\ mOut.stats = mLocal.stats
  /\ mOut.gameHistory = mLocal.gameHistory
  /\ mOut.usedWords = mLocal.usedWords
  /\ mOut.settings = mLocal.settings

CompleteStats(st) == DOMAIN st = DOMAIN getInitialStats

Settled(data) ==
  /\ Normalized(data)
  /\ CompleteStats(data.stats)
  /\ (HistoryOf(data) = <<>> => data.stats.currentStreak = 0)

SameAs(data) ==
  /\ mOut.stats = data.stats
  /\ mOut.gameHistory = data.gameHistory
  /\ mOut.usedWords = data.usedWords
  /\ mOut.settings = data.settings

\* C17: the empty snapshot (initial stats, no history, no used words, no settings) is
\* an identity of intelligentMerge on both sides: merged with an empty remote the
\* output is the local snapshot's stats, history, usedWords and settings, and merged
\* into an empty local it is the remote snapshot's.  Stated for the snapshots that
\* need neither cap, backfill nor completion, where the output is the input itself.
C17_EmptyIsIdentity ==
  /\ (mOut # Nothing /\ mRemote = EmptySnapshot /\ Settled(mLocal)) => SameAs(mLocal)
  /\ (mOut # Nothing /\ mLocal = EmptySnapshot /\ Settled(mRemote)) => SameAs(mRemote)

\* the entries a merged history retains; an entry the merge backfilled counts without
\* the id it drew, which depends on the order of the draws
Retained(history) ==
  {IF history[i].id >= FreshIdWide
     THEN [k \in DOMAIN history[i] \ {"id"} |-> history[i][k]]
     ELSE history[i] : i \in 1..Len(history)}

\* intelligentMerge with the two sides exchanged
Swapped == intelligentMerge(mRemote, mLocal, FreshIdWide, mNow)

\* C18: the merge is commutative on the monotonic fields: intelligentMerge(A, B) and
\* intelligentMerge(B, A) agree on played, wins, maxStreak, aiWords, listWords, every
\* guessDistribution entry, the set of usedWords and the set of history entries
\* retained.
C18_CommutativeOnMonotonic ==
  mOut # Nothing =>
    /\ \A k \in {"played", "wins", "maxStreak", "aiWords", "listWords", "guessDistribution"} :
         mOut.stats[k] = Swapped.stats[k]
    /\ SeqToSet(mOut.usedWords) = SeqToSet(Swapped.usedWords)
    /\ Retained(mOut.gameHistory) = Retained(Swapped.gameHistory)

\* C19: updateStatistics is pure: after the call every field of the object passed in,
\* every entry of its guessDistribution included, has the value it had before, for a
\* win as for a loss.
C19_InputUnchanged == sOut # Nothing => sInAfter = sIn

\* the word counter the source selects, and the other one
CounterOf(source) == IF source = "ai" THEN "aiWords" ELSE "listWords"

OtherCounterOf(source) == IF source = "ai" THEN "listWords" ELSE "aiWords"

\* C20: on 'won' with guessCount g in 1..6 the statistics returned have played, wins,
\* currentStreak, guessDistribution[g-1] and the word counter the source selects one
\* greater than those passed in (a missing counter counts as 0), maxStreak =
\* max(old maxStreak, new currentStreak), and every other guessDistribution entry and
\* the other word counter as they were.
C20_WonCounts ==
  (sOut # Nothing /\ sArgs.status = "won") =>
    /\ sOut.played = sIn.played + 1
    /\ sOut.wins = sIn.wins + 1
    /\ sOut.currentStreak = sIn.currentStreak + 1
    /\ sOut.maxStreak = Max(sIn.maxStreak, sOut.currentStreak)
    /\ DOMAIN sOut.guessDistribution = DOMAIN sIn.guessDistribution
    /\ \A i \in DOMAIN sIn.guessDistribution :
         sOut.guessDistribution[i] =
           sIn.guessDistribution[i] + (IF i = sArgs.guessCount THEN 1 ELSE 0)
    /\ Has(sOut, CounterOf(sArgs.source))
    /\ sOut[CounterOf(sArgs.source)] = NumOr0(sIn, CounterOf(sArgs.source)) + 1
    /\ Has(sOut, OtherCounterOf(sArgs.source)) = Has(sIn, OtherCounterOf(sArgs.source))
    /\ NumOr0(sOut, OtherCounterOf(sArgs.source)) = NumOr0(sIn, OtherCounterOf(sArgs.source))

\* a win on an AI word in the last row, after a streak had been broken
C20_Witness ==
  /\ sOut # Nothing
  /\ sArgs.status = "won"
  /\ sArgs.source = "ai"
  /\ sArgs.guessCount = MAX_ATTEMPTS
  /\ sIn.maxStreak > sIn.currentStreak

\* C21: on 'lost' the statistics returned have currentStreak 0, played and the word
\* counter the source selects one greater than those passed in (a missing counter
\* counts as 0), and wins, maxStreak, every guessDistribution entry and the other
\* word counter as they were.
C21_LostCounts ==
  (sOut # Nothing /\ sArgs.status = "lost") =>
    /\ sOut.currentStreak = 0
    /\ sOut.played = sIn.played + 1
    /\ sOut.wins = sIn.wins
    /\ sOut.maxStreak = sIn.maxStreak
    /\ sOut.guessDistribution = sIn.guessDistribution
    /\ Has(sOut, CounterOf(sArgs.source))
    /\ sOut[CounterOf(sArgs.source)] = NumOr0(sIn, CounterOf(sArgs.source)) + 1
    /\ Has(sOut, OtherCounterOf(sArgs.source)) = Has(sIn, OtherCounterOf(sArgs.source))
    /\ NumOr0(sOut, OtherCounterOf(sArgs.source)) = NumOr0(sIn, OtherCounterOf(sArgs.source))

\* a loss on a list word that ends a running streak
C21_Witness ==
  /\ sOut # Nothing
  /\ sArgs.status = "lost"
  /\ sArgs.source = "list"
  /\ sIn.currentStreak > 0
  /\ sIn.maxStreak > 0

SumOf(dist) == dist[1] + dist[2] + dist[3] + dist[4] + dist[5] + dist[6]

\* the Statistics invariant
StatsInvariant(st) ==
  /\ st.wins <= st.played
  /\ st.currentStreak <= st.maxStreak
  /\ SumOf(st.guessDistribution) <= st.wins
  /\ st.aiWords + st.listWords = st.played

\* C22: from the all-zero initial statistics, after any sequence of updateStatistics
\* calls (won or lost, guessCount 1..6, ai or list) and resets to initial, the
\* statistics satisfy wins <= played, currentStreak <= maxStreak,
\* sum(guessDistribution) <= wins and aiWords + listWords = played.
C22_StatsInvariant ==
  /\ StatsInvariant(sIn)
  /\ sOut # Nothing => StatsInvariant(sOut)

\* statistics with a broken streak and words of both sources, just returned
C22_Witness ==
  /\ sOut # Nothing
  /\ sOut.played = MaxPlayed
  /\ sOut.currentStreak < sOut.maxStreak
  /\ sOut.aiWords > 0
  /\ sOut.listWords > 0

\* C23: the Statistics invariant holds in every state reachable with sync in use:
\* whenever both inputs of a merge a device ran satisfy it, the merged statistics
\* satisfy it as well, and so do the statistics of every device.
C23_StatsInvariantUnderSync ==
  \A d \in Devices :
    /\ StatsInvariant(stats[d])
    /\ (/\ lastMerge[d] # Nothing
        /\ StatsInvariant(StatsOf(lastMerge[d].local))
        /\ StatsInvariant(StatsOf(lastMerge[d].remote)))
       => StatsInvariant(lastMerge[d].out.stats)

\* no counter of st is below the one of old
NotBelow(st, old) ==
  /\ \A k \in {"played", "wins", "maxStreak", "aiWords", "listWords"} : st[k] >= old[k]
  /\ \A i \in 1..MAX_ATTEMPTS : st.guessDistribution[i] >= old.guessDistribution[i]

\* C24: on one device played, wins, maxStreak, aiWords, listWords and every
\* guessDistribution entry never decrease, whatever games are completed and sync
\* merges applied (entering a code, Sync Now and its conflict retry).
C24_CountersNeverDecrease ==
  [][\A d \in Devices : NotBelow(stats'[d], stats[d])]_vars

\* the entries of a log that are not in the log after it
Evicted(before, after) ==
  {before[i] : i \in {j \in 1..Len(before) : \A k \in 1..Len(after) : after[k].id # before[j].id}}

\* C25: after addGameToHistory has appended a finished game, the stored history holds
\* at most MAX_HISTORY_SIZE entries, and an entry the append evicted had the smallest
\* timestamp of the history as it was before the append.
C25_EvictsSmallestTimestamp ==
  [][\A d \in Devices :
       (lastGame'[d] # lastGame[d]) =>
         /\ Len(gameHistory'[d]) <= MAX_HISTORY_SIZE
         /\ \A e \in Evicted(gameHistory[d], gameHistory'[d]) :
              \A i \in 1..Len(gameHistory[d]) : e.t <= gameHistory[d][i].t]_vars

\* C26: when startGameWithWord finds a pending rating, it writes the rating to the
\* 'u' field of an entry with the greatest timestamp of the stored history and changes
\* no other entry, and the pending rating is cleared.
C26_RatingGoesToGreatestTimestamp ==
  [][\A d \in Devices :
       (pendingUnderstanding[d] # NoRating /\ pendingUnderstanding'[d] # pendingUnderstanding[d]
          /\ pendingUnderstanding'[d] \notin Ratings) =>
         /\ pendingUnderstanding'[d] = NoRating
         /\ Len(gameHistory'[d]) = Len(gameHistory[d])
         /\ Len(gameHistory[d]) > 0 =>
              \E i \in 1..Len(gameHistory[d]) :
                /\ \A j \in 1..Len(gameHistory[d]) : gameHistory[d][j].t <= gameHistory[d][i].t
                /\ gameHistory'[d][i] = RatedWith(gameHistory[d][i], pendingUnderstanding[d])
                /\ \A j \in 1..Len(gameHistory[d]) : j # i => gameHistory'[d][j] = gameHistory[d][j]]_vars

\* no id on two entries of a history
NoIdTwice(history) ==
  \A i, j \in 1..Len(history) :
    (i < j /\ Has(history[i], "id") /\ Has(history[j], "id")) => history[i].id # history[j].id

C28_StatusReturnsToIdle ==
  \A d \in Devices : (syncStatus[d] \in {"success", "error"}) ~> (syncStatus[d] = "idle")

\* XXXX-YYYY: four characters, a dash, four characters
WellShaped(code) ==
  LET chars == Letters(code)
  IN /\ Len(chars) = 9
     /\ chars[5] = "-"
     /\ \A i \in (1..9) \ {5} : chars[i] \notin {"-", " "}

\* C29: no GET and no PUT is in flight for a sync code that is not of the shape
\* XXXX-YYYY, whichever handler started the call.
C29_NoCallForMalformedCode ==
  \A d \in Devices : \A i \in 1..Len(calls[d]) :
    calls[d][i].pc \in {"GET_sent", "PUT_sent", "PUT_read"} => WellShaped(calls[d][i].code)

\* the step in which the pull of device d's handleEnterSyncCode fails: the GET is
\* answered with an error status, or fetch() rejects
EnterFails(d) ==
  \E i \in 1..Len(calls[d]) :
    /\ calls[d][i].kind = "enter"
    /\ calls[d][i].pc = "GET_sent"
    /\ Len(calls'[d]) = Len(calls[d]) - 1
    /\ (failures' # failures \/ GetResponse(calls[d][i].code).status # 200)

\* C30: when the pull of handleEnterSyncCode fails, the status becomes 'error' with a
\* message, the device's statistics, history, used words, settings, sync code, sync
\* version and sync-enabled flag keep their values, and a code can be entered again.
C30_FailedPullChangesNothing ==
  [][\A d \in Devices :
       EnterFails(d) =>
         /\ syncStatus'[d] = "error"
         /\ syncError'[d] # NoError
         /\ stats'[d] = stats[d]
         /\ gameHistory'[d] = gameHistory[d]
         /\ usedWords'[d] = usedWords[d]
         /\ settings'[d] = settings[d]
         /\ syncCode'[d] = syncCode[d]
         /\ syncVersion'[d] = syncVersion[d]
         /\ syncEnabled'[d] = syncEnabled[d]
         /\ syncCode'[d] = NoCode]_vars

\* a device that has recorded a game was told that the code it entered is unknown
C30_Witness ==
  \E d \in Devices :
    /\ syncStatus[d] = "error"
    /\ syncError[d] = "Sync code not found"
    /\ lastResp[d] # Nothing
    /\ lastResp[d].method = "GET"
    /\ lastResp[d].status = 404
    /\ Len(gameHistory[d]) > 0
    /\ syncCode[d] = NoCode
    /\ ~syncEnabled[d]

\* the positions of the drawn row where the guess has the letter and the status is one
\* of these
Marked(letter, statuses) ==
  {position \in 1..WORD_LENGTH : bGuess[position] = letter /\ bRow[position] \in statuses}

\* C31: for every letter, the positions of the guess marked 'correct' or 'present' for
\* it are no more than the occurrences of the letter in the target word.
C31_MarksWithinCount ==
  bRow # Nothing =>
    \A letter \in BoardLetters :
      Cardinality(Marked(letter, {"correct", "present"})) <= CountIn(bTarget, letter)

\* a guess with more copies of a letter than the target word has, one of them marked
\* 'present' and a later one 'absent'
C31_Witness ==
  /\ bRow # Nothing
  /\ \E letter \in BoardLetters :
       /\ CountIn(bGuess, letter) > CountIn(bTarget, letter)
       /\ Marked(letter, {"present"}) # {}
       /\ Marked(letter, {"absent"}) # {}
       /\ Marked(letter, {"correct"}) # {}

\* C32: a position of the drawn row whose guess letter is the target word's letter at
\* that position is 'correct'; a guess equal to the target word is 'correct' everywhere.
C32_ExactMatchIsCorrect ==
  bRow # Nothing =>
    /\ \A position \in 1..WORD_LENGTH :
         bGuess[position] = bTarget[position] => bRow[position] = "correct"
    /\ bGuess = bTarget => \A position \in 1..WORD_LENGTH : bRow[position] = "correct"

\* an exact match behind an earlier copy of the same letter that uses up the count, and
\* a guess equal to the target word is drawn as well
C32_Witness ==
  /\ bRow # Nothing
  /\ \E p, q \in 1..WORD_LENGTH :
       /\ p < q
       /\ bGuess[p] = bGuess[q]
       /\ bGuess[q] = bTarget[q]
       /\ bGuess[p] # bTarget[p]
       /\ CountIn(bTarget, bGuess[q]) = 1
       /\ bRow[q] = "correct"
       /\ bRow[p] = "absent"

\* the standard evaluation, second pass: the positions of the letter that are not exact
\* matches and are marked 'present' among the first n positions
RECURSIVE Yellows(_, _, _, _)
Yellows(guess, secret, letter, n) ==
  IF n = 0 THEN {}
  ELSE LET earlier == Yellows(guess, secret, letter, n - 1)
           greens == {i \in 1..Len(guess) : guess[i] = letter /\ secret[i] = letter}
       IN IF guess[n] = letter /\ secret[n] # letter
             /\ Cardinality(greens) + Cardinality(earlier) < CountIn(secret, letter)
            THEN earlier \cup {n}
            ELSE earlier

\* the standard two-pass evaluation of a guess
TwoPass(guess, secret) ==
  [position \in 1..Len(guess) |->
     IF guess[position] = secret[position] THEN "correct"
     ELSE IF position \in Yellows(guess, secret, guess[position], Len(guess)) THEN "present"
     ELSE "absent"]

\* C33: the statuses getLetterStatus gives to the positions of a row are those of the
\* standard two-pass evaluation of the guess against the target word.
C33_SameAsTwoPass == bRow # Nothing => bRow = TwoPass(bGuess, bTarget)

\* a row with all three statuses for one letter
C33_Witness ==
  /\ bRow # Nothing
  /\ \E letter \in BoardLetters :
       /\ CountIn(bTarget, letter) = 2
       /\ CountIn(bGuess, letter) >= 3
       /\ Cardinality(Marked(letter, {"correct"})) = 1
       /\ Cardinality(Marked(letter, {"present"})) = 1
       /\ Marked(letter, {"absent"}) # {}

\* startNewGame resumes with the answer of the word picker
Resumes == aiCall # Nothing /\ aiCall' = Nothing /\ reloads' = reloads

\* the answer is a failure, is not a word of five capital letters, or is a word the
\* installation has stored as used
BadPick(response, used) ==
  \/ ~response.ok
  \/ Len(Letters(WordOf(response))) # WORD_LENGTH
  \/ \E i \in 1..Len(Letters(WordOf(response))) : Letters(WordOf(response))[i] \notin UpperCaseLetters
  \/ WordOf(response) \in used

\* C34: when the word picker fails or returns a malformed or already-used word,
\* startNewGame does not start a round with that word: it opens the victory dialog or
\* starts a round with an unused word of the answer list and source 'list'; in every
\* case it clears the loading flag.
C34_BadPickFallsBackToList ==
  [][Resumes =>
       /\ ~isLoadingWord'
       /\ BadPick(lastPick', SeqToSet(usedWords[RoundDevice])) =>
            \/ showVictoryDialog'[RoundDevice]
            \/ /\ wordSource'[RoundDevice] = "list"
               /\ targetWord'[RoundDevice] \in ANSWER_WORDS \ SeqToSet(usedWords[RoundDevice])
               /\ gameStatus'[RoundDevice] = "playing"]_vars

\* C35: no request the app sends to the Cloudflare worker carries the API key.
C35_NoKeyToWorker ==
  (aiCall # Nothing /\ aiCall.url = CLOUDFLARE_WORKER_URL) =>
    \A header \in DOMAIN aiCall.headers : aiCall.headers[header] # apiKey[RoundDevice]

\* the rows of the board that hold a guess
AcceptedRows == {i \in 1..Len(guesses) : guesses[i] # <<>>}

\* five letters that spell a word of the valid list
InList(chars) == Len(chars) = WORD_LENGTH /\ \E word \in VALID_WORDS : Letters(word) = chars

RoundShape ==
  /\ currentRow[RoundDevice] \in 0..(MAX_ATTEMPTS - 1)
  /\ Len(guesses) = MAX_ATTEMPTS
  /\ Cardinality(AcceptedRows) <= MAX_ATTEMPTS
  /\ \A i \in AcceptedRows : InList(guesses[i])
  /\ gameStatus[RoundDevice] = "won"
       <=> \E i \in AcceptedRows : guesses[i] = Letters(targetWord[RoundDevice])
  /\ gameStatus[RoundDevice] = "lost"
       <=> /\ AcceptedRows = 1..MAX_ATTEMPTS
           /\ guesses[MAX_ATTEMPTS] # Letters(targetWord[RoundDevice])
  /\ gameStatus[RoundDevice] = "playing" => AcceptedRows = 1..currentRow[RoundDevice]

RoundStep ==
  /\ (submits' # submits /\ ~InList(currentGuess))
       => /\ guesses' = guesses
          /\ currentRow' = currentRow
          /\ gameStatus' = gameStatus
  /\ (submits' # submits /\ InList(currentGuess))
       => /\ guesses' = [guesses EXCEPT ![currentRow[RoundDevice] + 1] = currentGuess]
          /\ gameStatus'[RoundDevice] =
               IF currentGuess = Letters(targetWord[RoundDevice]) THEN "won"
               ELSE IF Cardinality(AcceptedRows) = MAX_ATTEMPTS - 1 THEN "lost"
               ELSE "playing"
  /\ (gameStatus[RoundDevice] # "playing" /\ rounds' = rounds)
       => /\ guesses' = guesses
          /\ currentRow' = currentRow
          /\ gameStatus' = gameStatus

\* C39: in a round at most 6 guesses are accepted and currentRow stays in 0..5; a guess
\* that is not five letters long or not in the valid list changes neither the guesses,
\* the row nor the status; the status is 'won' exactly when an accepted guess is the
\* target word and 'lost' exactly when the sixth accepted guess is not; a finished round
\* accepts no guess until a new game starts.
C39_RoundRules == []RoundShape /\ [][RoundStep]_vars

\* a round lost with its sixth guess after ENTER on a text that is not in the list
C39_Witness ==
  /\ gameStatus[RoundDevice] = "lost"
  /\ AcceptedRows = 1..MAX_ATTEMPTS
  /\ errorMessage = "Not in word list"
  /\ submits >= 2

\* C40: the source written to the history entry and counted in the statistics of a game
\* is the source its word was selected with, page loads in the middle of the round
\* included.
C40_RecordedSourceIsSelectedSource ==
  [][saves'[RoundDevice] > saves[RoundDevice] =>
       /\ gameHistory'[RoundDevice][Len(gameHistory'[RoundDevice])].src = selectedWith
       /\ NumOr0(stats'[RoundDevice], "aiWords") - NumOr0(stats[RoundDevice], "aiWords")
            = (IF selectedWith = "ai" THEN 1 ELSE 0)
       /\ NumOr0(stats'[RoundDevice], "listWords") - NumOr0(stats[RoundDevice], "listWords")
            = (IF selectedWith = "ai" THEN 0 ELSE 1)]_vars

\* C36: a game a device recorded, also one recorded while a sync cycle of the device was
\* suspended on the network, stays in the device's history, used words and played
\* count when the cycle resumes and applies its merged data (used words: as long as
\* nobody clears them).
C36_GameSurvivesSuspendedCycle ==
  \A d \in Devices :
    lastGame[d] # Nothing =>
      /\ lastGame[d].id \in HistoryIds(gameHistory[d])
      /\ stats[d].played >= 1
      /\ clears = 0 => lastGame[d].w \in SeqToSet(usedWords[d])

\* C38: in every state the history a device has stored is in ascending order of
\* timestamp, so that its last entry is one with the greatest timestamp.
C38_HistoryAscending ==
  \A d \in Devices :
    \A i, j \in 1..Len(gameHistory[d]) :
      i < j => NumOr0(gameHistory[d][i], "t") <= NumOr0(gameHistory[d][j], "t")

\* bookkeeping: both devices ended their last cycles with 'success', nothing is in
\* flight, and at least three cycles ran in turn (A, B, A or B, A, B)
SyncedInTurn ==
  /\ syncs >= 3
  /\ \A d \in Devices : calls[d] = <<>> /\ lastCycle[d] # Nothing /\ lastCycle[d].status = "success"

\* C37: after the devices have stopped playing and rating and have synced in turn (A, B,
\* A), both devices and the remote record hold the same statistics, the same used
\* words and the same history entries, ratings included.
C37_SyncConverges ==
  SyncedInTurn =>
    \A d \in Devices :
      /\ stats[d] = store[syncCode[d]].data.stats
      /\ SeqToSet(usedWords[d]) = SeqToSet(store[syncCode[d]].data.usedWords)
      /\ SeqToSet(gameHistory[d]) = SeqToSet(store[syncCode[d]].data.gameHistory)

====
